---- MODULE Spec2Model ----
(***************************************************************************)
(* ReadBuddy: the audio pipeline of src/utils/audioUtils.ts, the record    *)
(* button of TextReader and the two session stores.                        *)
(*                                                                         *)
(* Spec       LiveAudioPlayer (playChunk / stop) together with the parts   *)
(*            of the Web Audio context it drives: the context state, the   *)
(*            output clock, the promises of context.resume() and the       *)
(*            ended events of the buffer sources.                          *)
(* SpecCodec  the PCM16 decode step of playChunk and float32ToInt16PCM,    *)
(*            applied to byte sequences.                                   *)
(* SpecEncoder  float32ToInt16PCM applied to channel data, followed by the *)
(*            decode loop of playPCMAudio.                                 *)
(* SpecOneShot  playPCMAudio on the module's AudioContext, next to a live  *)
(*            LiveAudioPlayer.                                             *)
(* SpecReader TextReader: the record button, the mode buttons and the      *)
(*            requests they await.                                         *)
(* SpecDb     DatabaseService.addSession on a local calendar.              *)
(* SpecServer POST /api/sessions, statement by statement.                  *)
(* SpecAuth   the access token: register, login, logout, getCurrentUser.   *)
(* SpecSession  the methods of ReadBuddyLive, called in any order.         *)
(* SpecTutor  TextReader in Live Tutor mode with its sessions and player.  *)
(* SpecProfile  updateSettings and addStory next to addSession.            *)
(* SpecPractice  PhonemePractice: the words and illustrations it requests. *)
(*                                                                         *)
(* Time is counted in sample frames of the 24 kHz context: a time t of the *)
(* model is t / sampleRate seconds, a buffer of n frames lasts n units.    *)
(* A float sample is the rational num / den.                               *)
(***************************************************************************)
EXTENDS Integers, Sequences, FiniteSets, TLC

VARIABLES
    ctxState,       \* this.context.state: "suspended" or "running"
    currentTime,    \* this.context.currentTime, in frames
    nextStartTime,  \* LiveAudioPlayer.nextStartTime, in frames
    queue,          \* LiveAudioPlayer.queue: the source nodes, by identity
    sources,        \* every AudioBufferSourceNode created by playChunk
    awaiting,       \* playChunk calls suspended at `await context.resume()`
    microtasks,     \* continuations of playChunk whose promise has resolved
    failed,         \* playChunk calls whose promise rejected
    calls,          \* number of playChunk calls made so far
    stops,          \* number of stop() calls made so far
    callsAtStop,    \* value of calls when stop() last ran (0 before)
    pcmBytes,       \* codec: the byte sequence handed to the decoder
    pcmFloat,       \* codec: the decoded channel data
    pcmInt16,       \* codec: the result of float32ToInt16PCM
    pcmBack,        \* codec: pcmInt16 decoded again for playback
    codecPc,        \* codec: "bytes", "captured", "decoded", "encoded",
                    \* "replayed" or "failed"
    audioContext,   \* the module's `audioContext`: "null", or its state
    osTime,         \* audioContext.currentTime, in frames
    osCalls,        \* the playPCMAudio calls made so far
    osSources,      \* every AudioBufferSourceNode created by playPCMAudio
    isLiveMode,     \* TextReader: state isLiveMode
    isRecording,    \* TextReader: state isRecording
    mediaRecorder,  \* TextReader: state mediaRecorder (0: null, else its id)
    liveSession,    \* TextReader: state liveSession is not null
    micStream,      \* TextReader: micStream.current (0: null, else its id)
    capturing,      \* the microphone streams that are open, by id
    inflight,       \* TextReader: handlers suspended at an await
    alerts,         \* the messages shown with alert()
    unhandled,      \* promise rejections that no catch block received
    presses,        \* button presses so far
    denials,        \* refused microphone requests so far
    captures,       \* microphone streams opened so far
    dateNow,        \* Date.now(), in hours since the start of day 1
    calendar,       \* the local calendar: the day of a clock change, if any
    dbUser,         \* IndexedDB store 'users': the user's record, or NoUser
    dbSessions,     \* IndexedDB store 'sessions': the stars of its records
    srvUser,        \* SQLite table users: the user's row, or NoUser
    srvSessions,    \* SQLite table sessions: the stars of its rows
    srvReqs,        \* POST /api/sessions requests being processed
    srvPosts,       \* POST /api/sessions requests received so far
    authToken,      \* localStorage['readbuddy_access_token']
    authUsers,      \* the usernames in the 'users' store
    authCalls,      \* getCurrentUser calls awaiting db.getUser
    authResults,    \* what the getCurrentUser calls have returned
    authStarted,    \* getCurrentUser calls made so far
    authOps,        \* register, login and logout calls made so far
    loggedOut,      \* logout has run and no login or register since
    live,           \* ReadBuddyLive objects: currentSession of each
                    \* (0: null, else the socket it holds)
    sockets,        \* the sessions opened by ai.live.connect
    sendCalls,      \* sendAudio calls made so far
    sendErrors,     \* exceptions thrown out of sendAudio
    lastEvent,      \* per ReadBuddyLive object: "new", or which of
                    \* "connected" and "disconnected" happened last
    liveRef,        \* TextReader: the object in state liveSession (0: null)
    processorNode,  \* TextReader: processorNode.current, by the object its
                    \* onaudioprocess sends to (0: null)
    processors,     \* the script processors still connected, named likewise
    playerMade,     \* TextReader: liveAudioPlayer.current is not null
    delivered,      \* per playChunk call of onmessage: the session it came by
    dbProfile,      \* store 'users': settings and customStories of the
                    \* user's record (those of a new record while none exists)
    dbPending,      \* updateSettings and addStory calls awaiting db.getUser
    dbRewrites,     \* updateSettings and addStory calls made so far
    selectedCategory, \* PhonemePractice: state selectedCategory, or Null
    words,          \* PhonemePractice: state words
    currentIndex,   \* PhonemePractice: state currentIndex
    currentImage,   \* PhonemePractice: state currentImage: NoImage, or
                    \* the word it illustrates
    loading,        \* PhonemePractice: state loading
    result,         \* PhonemePractice: a correct result is shown
    wordReqs,       \* getTrickyWords requests awaited by startPractice
    imageReqs,      \* generateWordIllustration requests awaited
    practiceStarts  \* startPractice calls made so far

playerVars == <<ctxState, currentTime, nextStartTime, queue, sources,
                awaiting, microtasks, failed, calls, stops, callsAtStop>>
codecVars  == <<pcmBytes, pcmFloat, pcmInt16, pcmBack, codecPc>>
oneShotVars == <<audioContext, osTime, osCalls, osSources>>
vars       == <<ctxState, currentTime, nextStartTime, queue, sources,
                awaiting, microtasks, failed, calls, stops, callsAtStop,
                pcmBytes, pcmFloat, pcmInt16, pcmBack, codecPc,
                audioContext, osTime, osCalls, osSources,
                isLiveMode, isRecording, mediaRecorder, liveSession,
                micStream, capturing, inflight, alerts, unhandled, presses,
                denials, captures,
                dateNow, calendar, dbUser, dbSessions,
                srvUser, srvSessions, srvReqs, srvPosts,
                authToken, authUsers, authCalls, authResults, authStarted,
                authOps, loggedOut,
                live, sockets, sendCalls, sendErrors, lastEvent,
                liveRef, processorNode, processors, playerMade, delivered,
                dbProfile, dbPending, dbRewrites,
                selectedCategory, words, currentIndex, currentImage, loading,
                result, wordReqs, imageReqs, practiceStarts>>
readerVars == <<isLiveMode, isRecording, mediaRecorder, liveSession,
                micStream, capturing, inflight, alerts, unhandled, presses,
                denials, captures>>

\* What the operations of one part of the program leave alone
clockVars  == <<dateNow, calendar>>
dbVars     == <<dbUser, dbSessions>>
serverVars == <<srvUser, srvSessions, srvReqs, srvPosts>>
storeVars  == <<clockVars, dbVars, serverVars>>
authVars   == <<authToken, authUsers, authCalls, authResults, authStarted,
                authOps, loggedOut>>
liveVars   == <<live, sockets, sendCalls, sendErrors, lastEvent>>
tutorVars  == <<liveRef, processorNode, processors, playerMade, delivered>>
profileVars == <<dbProfile, dbPending, dbRewrites>>
practiceVars == <<selectedCategory, words, currentIndex, currentImage,
                  loading, result, wordReqs, imageReqs, practiceStarts>>
appVars    == <<authVars, liveVars, tutorVars, profileVars, practiceVars>>

besidesPlayer  == <<codecVars, oneShotVars, readerVars, storeVars, appVars>>
besidesCodec   == <<playerVars, oneShotVars, readerVars, storeVars, appVars>>
besidesOneShot == <<codecVars, readerVars, storeVars, appVars>>
besidesReader  == <<playerVars, codecVars, oneShotVars, storeVars, appVars>>
besidesStores  == <<playerVars, codecVars, oneShotVars, readerVars>>
besidesAuth    == <<playerVars, codecVars, oneShotVars, readerVars, dbVars,
                    serverVars, liveVars, tutorVars, profileVars,
                    practiceVars>>
besidesLive    == <<playerVars, codecVars, oneShotVars, readerVars,
                    storeVars, authVars, tutorVars, profileVars,
                    practiceVars>>
besidesTutor   == <<codecVars, oneShotVars, storeVars, authVars, profileVars,
                    practiceVars>>
besidesProfile == <<playerVars, codecVars, oneShotVars, readerVars,
                    clockVars, serverVars, authVars, liveVars, tutorVars,
                    practiceVars>>
besidesPractice == <<playerVars, codecVars, oneShotVars, readerVars,
                     storeVars, authVars, liveVars, tutorVars, profileVars>>

----------------------------------------------------------------------------
(* Bounds of the exploration *)

MaxCalls == 3       \* playChunk calls per behaviour
MaxStops == 2       \* stop() calls per behaviour
MaxTime  == 2       \* the output clock stops advancing here
MaxBytes == 4       \* longest chunk, in bytes
MaxPcmBytes == 4    \* codec: longest byte sequence over ByteVals
MaxFloats == 4      \* codec: longest float sequence over SampleFloats
MaxOneShots == 2    \* playPCMAudio calls per behaviour
MaxLiveChunks == 1  \* playChunk calls next to the playPCMAudio calls
MaxPresses == 4     \* TextReader: button presses per behaviour
MaxDays == 2        \* stores: days of the calendar
MaxSessions == 3    \* stores: addSession calls per behaviour
MaxStars == 2       \* stores: most stars of one session
MaxPosts == 2       \* server: POST /api/sessions requests per behaviour
MaxAuthCalls == 2   \* auth: getCurrentUser calls per behaviour
MaxAuthOps == 3     \* auth: register, login and logout calls per behaviour
MaxLive == 2        \* live: ReadBuddyLive objects per behaviour
MaxSockets == 3     \* live: ai.live.connect calls per behaviour
MaxSends == 3       \* live: sendAudio calls per behaviour
MaxTutorSends == 1  \* live: sendAudio calls next to the player
MaxRewrites == 2    \* stores: updateSettings and addStory calls per behaviour
MaxWords == 2       \* practice: most words of one category
MaxStarts == 2      \* practice: startPractice calls per behaviour

----------------------------------------------------------------------------
(* Helpers *)

Range(s) == { s[i] : i \in DOMAIN s }

----------------------------------------------------------------------------
(* playChunk: decoding the chunk into an AudioBuffer *)

numChannels == 1

\* Faulty variant of Int16ViewOk: a trailing odd byte is ignored
Int16ViewTruncates(nbytes) == TRUE

\* new Int16Array(data.buffer) throws a RangeError unless the byte length is
\* a multiple of 2
Int16ViewOk(nbytes) == nbytes % 2 = 0

\* dataInt16.length / numChannels
FrameCount(nbytes) == (nbytes \div 2) \div numChannels

\* context.createBuffer(numChannels, frameCount, sampleRate) throws a
\* NotSupportedError for a length of zero frames
CreateBufferOk(frames) == frames >= 1

\* "ok", or the exception that ends the call
DecodeOutcome(nbytes) ==
    IF ~Int16ViewOk(nbytes) THEN "RangeError"
    ELSE IF ~CreateBufferOk(FrameCount(nbytes)) THEN "NotSupportedError"
    ELSE "ok"

\* buffer.duration, in frames
Duration(frames) == frames

----------------------------------------------------------------------------
(* playChunk: scheduling *)

\* Faulty variant of StartAt: the cursor is never snapped forward to the clock
StartAtCursor(cursor, now) == cursor

\* Faulty variant of StartAt: every chunk is started at the clock time
StartAtNow(cursor, now) == now

\* if (this.nextStartTime < currentTime) this.nextStartTime = currentTime;
\* source.start(this.nextStartTime)
StartAt(cursor, now) == IF cursor < now THEN now ELSE cursor

\* Faulty variant of AdvanceCursor: `=` written for `+=`
AdvanceCursorByDuration(start, dur) == dur

\* this.nextStartTime += buffer.duration
AdvanceCursor(start, dur) == start + dur

\* this.queue.push(source)
Enqueue(q, src) == Append(q, src)

\* Faulty variant of RemoveEnded: the oldest handle is dropped, whichever ended
RemoveOldest(q, src) == IF q = <<>> THEN q ELSE Tail(q)

\* this.queue = this.queue.filter(s => s !== source)
RemoveEnded(q, src) == SelectSeq(q, LAMBDA s : s # src)

\* Faulty variant of AwaitResume: the latest waiting call is resumed first
AwaitResumeFirst(pending, call) == <<call>> \o pending

\* await this.context.resume(): the call waits behind the calls that are
\* already waiting for the context to start
AwaitResume(pending, call) == Append(pending, call)

\* stop(): this.nextStartTime = 0
StopCursor == 0

\* Faulty variant of StopAll: only the oldest handle of the active set is stopped
StopOldest(srcs, q) ==
    [ i \in DOMAIN srcs |->
        IF q # <<>> /\ i = Head(q) THEN [srcs[i] EXCEPT !.stopCalled = TRUE]
        ELSE srcs[i] ]

\* Faulty variant of StopAll: every source ever created is stopped again
StopEverySource(srcs, q) ==
    [ i \in DOMAIN srcs |-> [srcs[i] EXCEPT !.stopCalled = TRUE] ]

\* stop(): this.queue.forEach(source => source.stop())
StopAll(srcs, q) ==
    [ i \in DOMAIN srcs |->
        IF i \in Range(q) THEN [srcs[i] EXCEPT !.stopCalled = TRUE]
        ELSE srcs[i] ]

\* The body of playChunk after the resume: decode, create the source,
\* schedule it, advance the cursor, track the handle.
PlayChunkBody(call) ==
    LET outcome == DecodeOutcome(call.bytes)
        frames  == FrameCount(call.bytes)
        start   == StartAt(nextStartTime, currentTime)
        src     == [ start      |-> start,
                     frames     |-> frames,
                     bytes      |-> call.bytes,
                     stopCalled |-> FALSE,
                     ended      |-> FALSE,
                     late       |-> nextStartTime < currentTime,
                     call       |-> call.id,
                     callStops  |-> call.stops,
                     suspended  |-> call.suspended,
                     session    |-> stops ]
    IN  IF outcome # "ok"
        THEN /\ failed' = Append(failed, [call |-> call.id, error |-> outcome,
                                       malformed |-> call.bytes % 2 = 1])
             /\ UNCHANGED <<nextStartTime, queue, sources>>
        ELSE /\ sources' = Append(sources, src)
             /\ nextStartTime' = AdvanceCursor(start, Duration(frames))
             /\ queue' = Enqueue(queue, Len(sources) + 1)
             /\ UNCHANGED failed

----------------------------------------------------------------------------
(* The state after `new LiveAudioPlayer()` *)

PlayerInit ==
    /\ ctxState \in {"suspended", "running"}
    /\ currentTime = 0
    /\ nextStartTime = 0
    /\ queue = <<>>
    /\ sources = <<>>
    /\ awaiting = <<>>
    /\ microtasks = <<>>
    /\ failed = <<>>
    /\ calls = 0
    /\ stops = 0
    /\ callsAtStop = 0

CodecIdle ==
    /\ pcmBytes = <<>>
    /\ pcmFloat = <<>>
    /\ pcmInt16 = <<>>
    /\ pcmBack = <<>>
    /\ codecPc = "bytes"

OneShotIdle ==
    /\ audioContext = "null"
    /\ osTime = 0
    /\ osCalls = <<>>
    /\ osSources = <<>>

\* TextReader after its first render
ReaderIdle ==
    /\ isLiveMode = FALSE
    /\ isRecording = FALSE
    /\ mediaRecorder = 0
    /\ liveSession = FALSE
    /\ micStream = 0
    /\ capturing = {}
    /\ inflight = <<>>
    /\ alerts = <<>>
    /\ unhandled = 0
    /\ presses = 0
    /\ denials = 0
    /\ captures = 0

\* No user record
NoUser == [ absent |-> TRUE ]

\* The stores before anybody has registered, on a calendar without a clock
\* change
StoresIdle ==
    /\ dateNow = 0
    /\ calendar = [day |-> 0, hours |-> 24]
    /\ dbUser = NoUser
    /\ dbSessions = <<>>
    /\ srvUser = NoUser
    /\ srvSessions = <<>>
    /\ srvReqs = <<>>
    /\ srvPosts = 0

\* No token
NoToken == [ absent |-> TRUE ]

\* Nobody has registered or logged in
AuthIdle ==
    /\ authToken = NoToken
    /\ authUsers = {}
    /\ authCalls = <<>>
    /\ authResults = <<>>
    /\ authStarted = 0
    /\ authOps = 0
    /\ loggedOut = FALSE

\* No ReadBuddyLive object has been constructed
LiveIdle ==
    /\ live = <<>>
    /\ sockets = <<>>
    /\ sendCalls = 0
    /\ sendErrors = 0
    /\ lastEvent = <<>>

\* TextReader has started no live session
TutorIdle ==
    /\ liveRef = 0
    /\ processorNode = 0
    /\ processors = {}
    /\ playerMade = FALSE
    /\ delivered = <<>>

\* DEFAULT_SETTINGS and customStories: [] of a new user
NewProfile == [ settings |-> "default", customStories |-> <<>> ]

\* No updateSettings or addStory call has been made
ProfileIdle ==
    /\ dbProfile = NewProfile
    /\ dbPending = <<>>
    /\ dbRewrites = 0

\* PhonemePractice after its first render
PracticeIdle ==
    /\ selectedCategory = "null"
    /\ words = <<>>
    /\ currentIndex = 0
    /\ currentImage = <<"null", 0>>
    /\ loading = FALSE
    /\ result = FALSE
    /\ wordReqs = <<>>
    /\ imageReqs = <<>>
    /\ practiceStarts = 0

\* The parts of the application outside the audio pipeline, the reader and
\* the stores are at rest
AppIdle == AuthIdle /\ LiveIdle /\ TutorIdle /\ ProfileIdle /\ PracticeIdle

Init ==
    PlayerInit /\ CodecIdle /\ OneShotIdle /\ ReaderIdle /\ StoresIdle
        /\ AppIdle

----------------------------------------------------------------------------
(* Actions of the player *)

\* A task of the event loop runs only when no microtask is left
TaskMayRun == microtasks = <<>>

\* playChunk(base64Audio) is called with a chunk of nbytes bytes: what the
\* call does to the player
PlayChunkCall(nbytes) ==
    /\ TaskMayRun
    /\ calls < MaxCalls
    /\ calls' = calls + 1
    /\ LET call == [ id        |-> calls + 1,
                     bytes     |-> nbytes,
                     stops     |-> stops,
                     suspended |-> ctxState = "suspended" ]
       IN  IF ctxState = "suspended"
           THEN /\ awaiting' = AwaitResume(awaiting, call)
                /\ UNCHANGED <<nextStartTime, queue, sources, failed>>
           ELSE /\ PlayChunkBody(call)
                /\ UNCHANGED awaiting
    /\ UNCHANGED <<ctxState, currentTime, microtasks, stops, callsAtStop>>

\* playChunk(base64Audio) called on its own
PlayChunk(nbytes) ==
    /\ PlayChunkCall(nbytes)
    /\ UNCHANGED besidesPlayer

\* The context starts rendering: its state becomes "running" and the pending
\* resume promises are resolved in the order they were created
ContextStarts ==
    /\ TaskMayRun
    /\ ctxState = "suspended"
    /\ ctxState' = "running"
    /\ microtasks' = awaiting
    /\ awaiting' = <<>>
    /\ UNCHANGED <<currentTime, nextStartTime, queue, sources, failed,
                   calls, stops, callsAtStop>>
    /\ UNCHANGED besidesPlayer

\* The continuation of a suspended playChunk call runs
ResumePlayChunk ==
    /\ microtasks # <<>>
    /\ PlayChunkBody(Head(microtasks))
    /\ microtasks' = Tail(microtasks)
    /\ UNCHANGED <<ctxState, currentTime, awaiting, calls, stops, callsAtStop>>
    /\ UNCHANGED besidesPlayer

\* stop(): what the call does to the player
StopCall ==
    /\ TaskMayRun
    /\ stops < MaxStops
    /\ sources' = StopAll(sources, queue)
    /\ queue' = <<>>
    /\ nextStartTime' = StopCursor
    /\ stops' = stops + 1
    /\ callsAtStop' = calls
    /\ UNCHANGED <<ctxState, currentTime, awaiting, microtasks, failed, calls>>

\* stop() called on its own
Stop ==
    /\ StopCall
    /\ UNCHANGED besidesPlayer

\* A source has played to its end or was stopped
Over(src, now) == src.stopCalled \/ now >= src.start + Duration(src.frames)

\* source.onended fires
Onended(i) ==
    /\ TaskMayRun
    /\ i \in DOMAIN sources
    /\ ~sources[i].ended
    /\ Over(sources[i], currentTime)
    /\ sources' = [sources EXCEPT ![i].ended = TRUE]
    /\ queue' = RemoveEnded(queue, i)
    /\ UNCHANGED <<ctxState, currentTime, nextStartTime, awaiting, microtasks,
                   failed, calls, stops, callsAtStop>>
    /\ UNCHANGED besidesPlayer

\* The output clock of a running context advances
Tick ==
    /\ ctxState = "running"
    /\ currentTime < MaxTime
    /\ currentTime' = currentTime + 1
    /\ UNCHANGED <<ctxState, nextStartTime, queue, sources, awaiting,
                   microtasks, failed, calls, stops, callsAtStop>>
    /\ UNCHANGED besidesPlayer

Next ==
    \/ \E nbytes \in 0..MaxBytes : PlayChunk(nbytes)
    \/ ContextStarts
    \/ ResumePlayChunk
    \/ Stop
    \/ \E i \in 1..MaxCalls : Onended(i)
    \/ Tick

Spec == Init /\ [][Next]_vars

----------------------------------------------------------------------------
(* The PCM16 codec *)

\* dataInt16[i] / 32768.0
DecodeScale == 32768
\* s * 0x8000
NegScale == 32768
\* s * 0x7FFF
PosScale == 32767

Byte == 0..255
\* bytes at the edges of the two halves of a little-endian sample
ByteVals == {0, 1, 127, 128, 255}

\* new Int16Array(data.buffer)[i]: little-endian, two's complement
Int16At(bytes, i) ==
    LET u == bytes[2 * i - 1] + 256 * bytes[2 * i]
    IN  IF u >= 32768 THEN u - 65536 ELSE u

\* The samples of a byte sequence of even length
Int16View(bytes) == [ i \in 1..(Len(bytes) \div 2) |-> Int16At(bytes, i) ]

\* channelData[i] = dataInt16[i] / 32768.0: the quotient as the rational
\* num / den (exact in a Float32Array: |s| <= 2^15 and den is a power of 2)
DecodeSample(s) == [num |-> s, den |-> DecodeScale]

\* Faulty variant of Clamp: Math.max(-1, x) alone, no upper limit
ClampBelowOnly(f) == IF f.num <= -f.den THEN [num |-> -1, den |-> 1] ELSE f

\* Math.max(-1, Math.min(1, x))
Clamp(f) ==
    IF f.num <= -f.den THEN [num |-> -1, den |-> 1]
    ELSE IF f.num >= f.den THEN [num |-> 1, den |-> 1]
    ELSE f

\* Faulty variant of ScaleSample: one scale factor for both signs
ScaleSampleSymmetric(f) == [num |-> f.num * NegScale, den |-> f.den]

\* s < 0 ? s * 0x8000 : s * 0x7FFF
ScaleSample(f) ==
    IF f.num < 0 THEN [num |-> f.num * NegScale, den |-> f.den]
    ELSE [num |-> f.num * PosScale, den |-> f.den]

\* Faulty variant of TruncDiv: rounding down
FloorDiv(a, b) == a \div b

\* Truncation of the rational a / b toward zero (b > 0)
TruncDiv(a, b) == IF a >= 0 THEN a \div b ELSE -((-a) \div b)

\* Storing a number into an Int16Array: truncate toward zero, then wrap
\* modulo 2^16 into -32768..32767
ToInt16(f) == ((TruncDiv(f.num, f.den) + 32768) % 65536) - 32768

\* One iteration of the loop of float32ToInt16PCM
EncodeSample(f) == ToInt16(ScaleSample(Clamp(f)))

\* float32ToInt16PCM(float32Array)
float32ToInt16PCM(floats) == [ i \in DOMAIN floats |-> EncodeSample(floats[i]) ]

RECURSIVE SeqsUpTo(_, _)
\* All sequences over S of length at most n
SeqsUpTo(S, n) ==
    IF n = 0 THEN { <<>> }
    ELSE LET shorter == SeqsUpTo(S, n - 1)
         IN  shorter \cup { Append(q, x) : q \in { r \in shorter : Len(r) = n - 1 }, x \in S }

\* The byte sequences handed to the decoder: every single 16-bit sample, and
\* the short sequences over ByteVals (odd lengths included)
CodecInputs ==
    { <<lo, hi>> : lo \in Byte, hi \in Byte } \cup SeqsUpTo(ByteVals, MaxPcmBytes)

PlayerIdle ==
    /\ ctxState = "running"
    /\ currentTime = 0
    /\ nextStartTime = 0
    /\ queue = <<>>
    /\ sources = <<>>
    /\ awaiting = <<>>
    /\ microtasks = <<>>
    /\ failed = <<>>
    /\ calls = 0
    /\ stops = 0
    /\ callsAtStop = 0

InitCodec ==
    /\ PlayerIdle
    /\ OneShotIdle
    /\ ReaderIdle
    /\ StoresIdle
    /\ AppIdle
    /\ pcmBytes \in CodecInputs
    /\ pcmFloat = <<>>
    /\ pcmInt16 = <<>>
    /\ pcmBack = <<>>
    /\ codecPc = "bytes"

\* The decode loop of playChunk
Decode ==
    /\ codecPc = "bytes"
    /\ IF Int16ViewOk(Len(pcmBytes))
       THEN /\ pcmFloat' = [ i \in 1..FrameCount(Len(pcmBytes)) |->
                               DecodeSample(Int16View(pcmBytes)[i]) ]
            /\ codecPc' = "decoded"
       ELSE /\ codecPc' = "failed"
            /\ UNCHANGED pcmFloat
    /\ UNCHANGED <<pcmBytes, pcmInt16, pcmBack>>
    /\ UNCHANGED besidesCodec

\* float32ToInt16PCM applied to channel data (decoded, or captured from the
\* microphone)
Encode ==
    /\ codecPc \in {"decoded", "captured"}
    /\ pcmInt16' = float32ToInt16PCM(pcmFloat)
    /\ codecPc' = "encoded"
    /\ UNCHANGED <<pcmBytes, pcmFloat, pcmBack>>
    /\ UNCHANGED besidesCodec

NextCodec == Decode \/ Encode

SpecCodec == InitCodec /\ [][NextCodec]_vars

\* Faulty variant of OneShotDecodeSample: the positive full scale as divisor
OneShotDecodeBy32767(s) == [num |-> s, den |-> PosScale]

\* playPCMAudio: channelData[i] = dataInt16[i] / 32768.0
OneShotDecodeSample(s) == [num |-> s, den |-> DecodeScale]

\* Float samples used in sequences: 0, 1/2, -1/2, 1, -1 and, outside the
\* nominal range, 2 and -2
SampleFloats ==
    { [num |-> 0, den |-> 1], [num |-> 1, den |-> 2], [num |-> -1, den |-> 2],
      [num |-> 1, den |-> 1], [num |-> -1, den |-> 1],
      [num |-> 2, den |-> 1], [num |-> -2, den |-> 1] }

\* The grid of single samples: half a quantisation step of the decoder
FineDen == 2 * DecodeScale

\* The channel data handed to float32ToInt16PCM: every single sample
\* k / FineDen between -1 and 1 (all of them values of a Float32Array), and
\* the short sequences over SampleFloats
EncoderInputs ==
    { << [num |-> k, den |-> FineDen] >> : k \in (-FineDen)..FineDen }
        \cup SeqsUpTo(SampleFloats, MaxFloats)

InitEncoder ==
    /\ PlayerIdle
    /\ OneShotIdle
    /\ ReaderIdle
    /\ StoresIdle
    /\ AppIdle
    /\ pcmBytes = <<>>
    /\ pcmFloat \in EncoderInputs
    /\ pcmInt16 = <<>>
    /\ pcmBack = <<>>
    /\ codecPc = "captured"

\* The decode loop of playPCMAudio applied to the encoder's output
DecodeBack ==
    /\ codecPc = "encoded"
    /\ pcmBack' = [ i \in DOMAIN pcmInt16 |-> OneShotDecodeSample(pcmInt16[i]) ]
    /\ codecPc' = "replayed"
    /\ UNCHANGED <<pcmBytes, pcmFloat, pcmInt16>>
    /\ UNCHANGED besidesCodec

NextEncoder == Encode \/ DecodeBack

SpecEncoder == InitEncoder /\ [][NextEncoder]_vars

----------------------------------------------------------------------------
(* playPCMAudio: one-shot playback on the module's own AudioContext *)

\* A base64 string that atob() rejects; any other payload is its byte length
InvalidBase64 == -1
Payloads == {InvalidBase64} \cup (0..MaxBytes)

\* const numChannels = 1
oneShotChannels == 1

\* Faulty variant of OneShotInt16ViewOk: a trailing odd byte is ignored
OneShotInt16ViewTruncates(nbytes) == TRUE

\* new Int16Array(data.buffer) throws a RangeError unless the byte length is
\* a multiple of 2
OneShotInt16ViewOk(nbytes) == nbytes % 2 = 0

\* dataInt16.length / numChannels
OneShotFrameCount(nbytes) == (nbytes \div 2) \div oneShotChannels

\* The statement of the body that throws and its exception, or "done"
OneShotDecodeOutcome(payload) ==
    IF payload = InvalidBase64
    THEN [step |-> "base64", error |-> "InvalidCharacterError"]
    ELSE IF ~OneShotInt16ViewOk(payload)
    THEN [step |-> "view", error |-> "RangeError"]
    ELSE IF OneShotFrameCount(payload) < 1
    THEN [step |-> "createBuffer", error |-> "NotSupportedError"]
    ELSE [step |-> "done", error |-> "none"]

\* Faulty variant of OneShotStartAt: the cursor of the streaming player is used
OneShotStartAtCursor(when, now) == nextStartTime

\* source.start(when): a time in the past starts the source at once
OneShotStartAt(when, now) == IF when < now THEN now ELSE when

\* Faulty variant of TryCovers: the context is created before the try block
TryCoversBody(step) == step \in {"resume", "base64", "view", "createBuffer", "start"}

\* The statements inside try { ... } catch (e) { console.error(...) }
TryCovers(step) ==
    step \in {"create", "resume", "base64", "view", "createBuffer", "start"}

\* A call that has come to its end: normally, or by an exception thrown at
\* `step`, which the catch block logs when the try block covers the step
Settled(payload, step, error) ==
    [ payload |-> payload,
      step    |-> step,
      error   |-> error,
      pc      |-> IF error = "none" \/ TryCovers(step)
                  THEN "resolved" ELSE "rejected",
      logged  |-> error # "none" /\ TryCovers(step) ]

\* A call suspended at `await audioContext.resume()`
Suspended(payload) ==
    [ payload |-> payload, step |-> "resume", error |-> "none",
      pc |-> "awaiting", logged |-> FALSE ]

\* The body of playPCMAudio after the resume, for the call `id`
OneShotBody(payload, id, startOk) ==
    LET o == OneShotDecodeOutcome(payload)
    IN  IF o.error # "none"
        THEN [ call |-> Settled(payload, o.step, o.error), src |-> <<>> ]
        ELSE IF ~startOk
        THEN [ call |-> Settled(payload, "start", "InvalidStateError"),
               src  |-> <<>> ]
        ELSE [ call |-> Settled(payload, "done", "none"),
               src  |-> << [ start  |-> OneShotStartAt(0, osTime),
                             frames |-> OneShotFrameCount(payload),
                             ended  |-> FALSE,
                             call   |-> id ] >> ]

\* No continuation of a playPCMAudio call is waiting in the microtask queue
OsIdle == \A i \in DOMAIN osCalls : osCalls[i].pc # "ready"

\* playPCMAudio(base64Audio); the platform decides whether the context can be
\* created, in which state it is created, and whether start() succeeds
PlayPCMAudio(payload, createOk, created, startOk) ==
    /\ OsIdle /\ TaskMayRun
    /\ Len(osCalls) < MaxOneShots
    /\ LET id == Len(osCalls) + 1
       IN  IF audioContext = "null" /\ ~createOk
           THEN /\ osCalls' = Append(osCalls,
                        Settled(payload, "create", "NotSupportedError"))
                /\ UNCHANGED <<audioContext, osSources>>
           ELSE LET ctx == IF audioContext = "null" THEN created
                           ELSE audioContext
                    r   == OneShotBody(payload, id, startOk)
                IN  /\ audioContext' = ctx
                    /\ IF ctx = "suspended"
                       THEN /\ osCalls' = Append(osCalls, Suspended(payload))
                            /\ UNCHANGED osSources
                       ELSE /\ osCalls' = Append(osCalls, r.call)
                            /\ osSources' = osSources \o r.src
    /\ UNCHANGED osTime
    /\ UNCHANGED besidesOneShot /\ UNCHANGED playerVars

\* The one-shot context starts rendering: the pending resume promises are
\* resolved in the order they were created
OsContextStarts ==
    /\ OsIdle /\ TaskMayRun
    /\ audioContext = "suspended"
    /\ audioContext' = "running"
    /\ osCalls' = [ i \in DOMAIN osCalls |->
                      IF osCalls[i].pc = "awaiting"
                      THEN [osCalls[i] EXCEPT !.pc = "ready"]
                      ELSE osCalls[i] ]
    /\ UNCHANGED <<osTime, osSources>>
    /\ UNCHANGED besidesOneShot /\ UNCHANGED playerVars

\* The platform rejects the promise of audioContext.resume() of call i
OsResumeRejects(i) ==
    /\ OsIdle /\ TaskMayRun
    /\ i \in DOMAIN osCalls
    /\ osCalls[i].pc = "awaiting"
    /\ osCalls' = [osCalls EXCEPT
                     ![i] = Settled(osCalls[i].payload, "resume",
                                    "InvalidStateError")]
    /\ UNCHANGED <<audioContext, osTime, osSources>>
    /\ UNCHANGED besidesOneShot /\ UNCHANGED playerVars

\* The continuation of the oldest resumed playPCMAudio call runs
OsContinue(startOk) ==
    /\ ~OsIdle
    /\ LET i == CHOOSE k \in DOMAIN osCalls :
                  /\ osCalls[k].pc = "ready"
                  /\ \A j \in 1..(k - 1) : osCalls[j].pc # "ready"
           r == OneShotBody(osCalls[i].payload, i, startOk)
       IN  /\ osCalls' = [osCalls EXCEPT ![i] = r.call]
           /\ osSources' = osSources \o r.src
    /\ UNCHANGED <<audioContext, osTime>>
    /\ UNCHANGED besidesOneShot /\ UNCHANGED playerVars

\* The ended event of a one-shot source fires
OsOnended(i) ==
    /\ OsIdle /\ TaskMayRun
    /\ i \in DOMAIN osSources
    /\ ~osSources[i].ended
    /\ osTime >= osSources[i].start + Duration(osSources[i].frames)
    /\ osSources' = [osSources EXCEPT ![i].ended = TRUE]
    /\ UNCHANGED <<audioContext, osTime, osCalls>>
    /\ UNCHANGED besidesOneShot /\ UNCHANGED playerVars

\* The output clock of the running one-shot context advances
OsTick ==
    /\ audioContext = "running"
    /\ osTime < MaxTime
    /\ osTime' = osTime + 1
    /\ UNCHANGED <<audioContext, osCalls, osSources>>
    /\ UNCHANGED besidesOneShot /\ UNCHANGED playerVars

\* A live session running next to the one-shot playback: playChunk of a
\* LiveAudioPlayer whose context is running
LivePlayChunk(nbytes) == OsIdle /\ calls < MaxLiveChunks /\ PlayChunk(nbytes)

InitOneShot ==
    PlayerIdle /\ CodecIdle /\ OneShotIdle /\ ReaderIdle /\ StoresIdle
        /\ AppIdle

NextOneShot ==
    \/ \E payload \in Payloads, createOk \in BOOLEAN,
          created \in {"suspended", "running"}, startOk \in BOOLEAN :
            PlayPCMAudio(payload, createOk, created, startOk)
    \/ OsContextStarts
    \/ \E i \in 1..MaxOneShots : OsResumeRejects(i)
    \/ \E startOk \in BOOLEAN : OsContinue(startOk)
    \/ \E i \in 1..MaxOneShots : OsOnended(i)
    \/ OsTick
    \/ \E nbytes \in 0..MaxBytes : LivePlayChunk(nbytes)

SpecOneShot == InitOneShot /\ [][NextOneShot]_vars

----------------------------------------------------------------------------
(* TextReader: the record button and the mode buttons *)

\* alert(...) of handleToggleRecord and of startLiveSession
StandardAlert == "Microphone access denied. Please enable microphone permissions."
LiveAlert == "Could not start Live Tutor. Check permissions."

\* Faulty variant of CatchOf: only startRecording is called inside a try block
CatchOfStandardOnly(op) ==
    IF op = "startRecording" THEN "handleToggleRecord" ELSE "none"

\* The function whose catch block receives a rejection of the awaited
\* operation: startRecording() is awaited in the try block of
\* handleToggleRecord, session.connect() and getUserMedia() in the try block
\* of startLiveSession
CatchOf(op) ==
    IF op = "startRecording" THEN "handleToggleRecord" ELSE "startLiveSession"

\* The message of a catch block
AlertOf(catcher) ==
    IF catcher = "handleToggleRecord" THEN StandardAlert ELSE LiveAlert

\* inflight without its i-th handler
Without(seq, i) == SubSeq(seq, 1, i - 1) \o SubSeq(seq, i + 1, Len(seq))

\* stopLiveSession(): disconnect the session, stop the microphone tracks
StopLiveSession ==
    /\ liveSession' = FALSE
    /\ capturing' = capturing \ {micStream}
    /\ micStream' = 0

\* The record button: handleToggleRecord up to its first await
PressRecord ==
    /\ presses < MaxPresses
    /\ presses' = presses + 1
    /\ IF isLiveMode
       THEN IF isRecording
            THEN /\ StopLiveSession
                 /\ isRecording' = FALSE
                 /\ UNCHANGED <<mediaRecorder, inflight>>
            ELSE /\ inflight' = Append(inflight, [op |-> "connect"])
                 /\ UNCHANGED <<isRecording, mediaRecorder, liveSession,
                                micStream, capturing>>
       ELSE IF isRecording
            THEN IF mediaRecorder # 0
                 THEN /\ capturing' = capturing \ {mediaRecorder}
                      /\ inflight' = Append(inflight, [op |-> "analyze"])
                      /\ UNCHANGED <<isRecording, mediaRecorder, liveSession,
                                     micStream>>
                 ELSE /\ isRecording' = FALSE
                      /\ mediaRecorder' = 0
                      /\ UNCHANGED <<liveSession, micStream, capturing,
                                     inflight>>
            ELSE /\ inflight' = Append(inflight, [op |-> "startRecording"])
                 /\ UNCHANGED <<isRecording, mediaRecorder, liveSession,
                                micStream, capturing>>
    /\ UNCHANGED <<isLiveMode, alerts, unhandled, denials, captures>>
    /\ UNCHANGED besidesReader

\* The Standard button
PressStandard ==
    /\ presses < MaxPresses
    /\ presses' = presses + 1
    /\ isLiveMode' = FALSE
    /\ IF isRecording
       THEN StopLiveSession
       ELSE UNCHANGED <<liveSession, micStream, capturing>>
    /\ isRecording' = FALSE
    /\ UNCHANGED <<mediaRecorder, inflight, alerts, unhandled, denials,
                   captures>>
    /\ UNCHANGED besidesReader

\* The Live Tutor button
PressLive ==
    /\ presses < MaxPresses
    /\ presses' = presses + 1
    /\ isLiveMode' = TRUE
    /\ UNCHANGED <<isRecording, mediaRecorder, liveSession, micStream,
                   capturing, inflight, alerts, unhandled, denials, captures>>
    /\ UNCHANGED besidesReader

\* A rejection of the operation awaited by handler i reaches a catch block,
\* which shows its message, or no catch block at all
Rejected(i) ==
    LET catcher == CatchOf(inflight[i].op)
    IN  /\ inflight' = Without(inflight, i)
        /\ IF catcher = "none"
           THEN /\ unhandled' = unhandled + 1
                /\ UNCHANGED <<alerts, isRecording>>
           ELSE /\ alerts' = Append(alerts, AlertOf(catcher))
                /\ unhandled' = unhandled
                   \* startLiveSession: setIsRecording(false) in the catch
                   \* block, then setIsRecording(true) in handleToggleRecord
                /\ isRecording' = IF catcher = "startLiveSession"
                                  THEN TRUE ELSE isRecording

\* startRecording(): getUserMedia resolves, the MediaRecorder is started
RecordingStarts(i) ==
    /\ i \in DOMAIN inflight
    /\ inflight[i].op = "startRecording"
    /\ captures' = captures + 1
    /\ capturing' = capturing \cup {captures + 1}
    /\ mediaRecorder' = captures + 1
    /\ isRecording' = TRUE
    /\ inflight' = Without(inflight, i)
    /\ UNCHANGED <<isLiveMode, liveSession, micStream, alerts, unhandled,
                   presses, denials>>
    /\ UNCHANGED besidesReader

\* startRecording(): getUserMedia rejects (access denied, no device)
RecordingDenied(i) ==
    /\ i \in DOMAIN inflight
    /\ inflight[i].op = "startRecording"
    /\ Rejected(i)
    /\ denials' = denials + 1
    /\ UNCHANGED <<isLiveMode, mediaRecorder, liveSession, micStream,
                   capturing, presses, captures>>
    /\ UNCHANGED besidesReader

\* startLiveSession: session.connect() resolves; getUserMedia is awaited next
ConnectResolves(i) ==
    /\ i \in DOMAIN inflight
    /\ inflight[i].op = "connect"
    /\ liveSession' = TRUE
    /\ inflight' = [inflight EXCEPT ![i] = [op |-> "getUserMedia"]]
    /\ UNCHANGED <<isLiveMode, isRecording, mediaRecorder, micStream,
                   capturing, alerts, unhandled, presses, denials, captures>>
    /\ UNCHANGED besidesReader

\* startLiveSession: session.connect() rejects
ConnectRejects(i) ==
    /\ i \in DOMAIN inflight
    /\ inflight[i].op = "connect"
    /\ Rejected(i)
    /\ UNCHANGED <<isLiveMode, mediaRecorder, liveSession, micStream,
                   capturing, presses, denials, captures>>
    /\ UNCHANGED besidesReader

\* startLiveSession: getUserMedia resolves, the processor is connected;
\* handleToggleRecord goes on with setIsRecording(true)
LiveMicStarts(i) ==
    /\ i \in DOMAIN inflight
    /\ inflight[i].op = "getUserMedia"
    /\ captures' = captures + 1
    /\ capturing' = capturing \cup {captures + 1}
    /\ micStream' = captures + 1
    /\ isRecording' = TRUE
    /\ inflight' = Without(inflight, i)
    /\ UNCHANGED <<isLiveMode, mediaRecorder, liveSession, alerts, unhandled,
                   presses, denials>>
    /\ UNCHANGED besidesReader

\* startLiveSession: getUserMedia rejects (access denied, no device)
LiveMicDenied(i) ==
    /\ i \in DOMAIN inflight
    /\ inflight[i].op = "getUserMedia"
    /\ Rejected(i)
    /\ denials' = denials + 1
    /\ UNCHANGED <<isLiveMode, mediaRecorder, liveSession, micStream,
                   capturing, presses, captures>>
    /\ UNCHANGED besidesReader

\* handleToggleRecord after stopRecording and analyzeReading:
\* setIsRecording(false); setMediaRecorder(null)
AnalysisEnds(i) ==
    /\ i \in DOMAIN inflight
    /\ inflight[i].op = "analyze"
    /\ isRecording' = FALSE
    /\ mediaRecorder' = 0
    /\ inflight' = Without(inflight, i)
    /\ UNCHANGED <<isLiveMode, liveSession, micStream, capturing, alerts,
                   unhandled, presses, denials, captures>>
    /\ UNCHANGED besidesReader

InitReader ==
    PlayerIdle /\ CodecIdle /\ OneShotIdle /\ ReaderIdle /\ StoresIdle
        /\ AppIdle

NextReader ==
    \/ PressRecord
    \/ PressStandard
    \/ PressLive
    \/ \E i \in 1..MaxPresses :
         \/ RecordingStarts(i)
         \/ RecordingDenied(i)
         \/ ConnectResolves(i)
         \/ ConnectRejects(i)
         \/ LiveMicStarts(i)
         \/ LiveMicDenied(i)
         \/ AnalysisEnds(i)

SpecReader == InitReader /\ [][NextReader]_vars

----------------------------------------------------------------------------
(* The session stores: DatabaseService.addSession and POST /api/sessions *)

\* 86400000 ms, in hours
DayMs == 24

\* The local calendars: every day has 24 hours, or one day has 23 (clocks
\* forward) or 25 (clocks back)
Calendars ==
    { [day |-> 0, hours |-> 24] }
        \cup { [day |-> d, hours |-> h] : d \in 1..MaxDays, h \in {23, 25} }

\* The length of local day d
DayHours(d) == IF d = calendar.day THEN calendar.hours ELSE 24

\* The hour at which local day d starts (day 1 starts at hour 0)
RECURSIVE DayStart(_)
DayStart(d) == IF d <= 1 THEN 0 ELSE DayStart(d - 1) + DayHours(d - 1)

\* The local day of the instant t; the days before day 1 have 24 hours
DayOf(t) ==
    IF t < 0 THEN -((-t + 23) \div 24) + 1
    ELSE CHOOSE d \in 1..(MaxDays + 1) : DayStart(d) <= t /\ t < DayStart(d + 1)

\* new Date(t).toDateString(): the local calendar day as text
DateString(t) == ToString(DayOf(t))

\* lastReadDate of a new user: '' in the frontend, NULL on the server
EmptyDate == ""
SqlNull == "NULL"

\* The aggregate update of DatabaseService.addSession
FrontendAggregate(user, stars, clock) ==
    LET today    == DateString(clock)
        lastRead == user.lastReadDate
    IN  [ totalStars   |-> user.totalStars + stars,
          streak       |-> IF lastRead = today THEN user.streak
                           ELSE IF lastRead = DateString(clock - DayMs)
                           THEN user.streak + 1
                           ELSE 1,
          lastReadDate |-> today ]

\* Faulty variant of ServerAggregate: no `else newStreak = 1`
ServerAggregateNoReset(user, stars, clock) ==
    LET today     == DateString(clock)
        yesterday == DateString(clock - DayMs)
    IN  [ totalStars   |-> user.totalStars + stars,
          streak       |-> IF user.lastReadDate # today
                              /\ user.lastReadDate = yesterday
                           THEN user.streak + 1 ELSE user.streak,
          lastReadDate |-> today ]

\* The aggregate update of POST /api/sessions
ServerAggregate(user, stars, clock) ==
    LET newStars  == user.totalStars + stars
        today     == DateString(clock)
        yesterday == DateString(clock - DayMs)
        newStreak == IF user.lastReadDate # today
                     THEN IF user.lastReadDate = yesterday
                          THEN user.streak + 1
                          ELSE 1
                     ELSE user.streak
    IN  [ totalStars |-> newStars, streak |-> newStreak,
          lastReadDate |-> today ]

\* Time passes: an hour
ClockAdvances ==
    /\ dateNow + 1 < DayStart(MaxDays + 1)
    /\ dateNow' = dateNow + 1
    /\ UNCHANGED <<calendar, dbVars, serverVars>>
    /\ UNCHANGED besidesStores /\ UNCHANGED appVars

\* MockApiClient.register: db.createUser(newUser)
FeRegister ==
    /\ dbUser = NoUser
    /\ dbUser' = [totalStars |-> 0, streak |-> 0, lastReadDate |-> EmptyDate]
    /\ UNCHANGED <<dbSessions, clockVars, serverVars>>
    /\ UNCHANGED besidesStores /\ UNCHANGED appVars

\* DatabaseService.addSession(username, session): one readwrite transaction
\* on 'sessions' and 'users'
FeAddSession(stars) ==
    /\ Len(dbSessions) < MaxSessions
    /\ dbSessions' = Append(dbSessions, stars)
    /\ dbUser' = IF dbUser # NoUser
                 THEN FrontendAggregate(dbUser, stars, dateNow)
                 ELSE dbUser
    /\ UNCHANGED <<clockVars, serverVars>>
    /\ UNCHANGED besidesStores /\ UNCHANGED appVars

InitDb ==
    /\ PlayerIdle /\ CodecIdle /\ OneShotIdle /\ ReaderIdle /\ AppIdle
    /\ dateNow = 0
    /\ calendar \in Calendars
    /\ dbUser = NoUser
    /\ dbSessions = <<>>
    /\ srvUser = NoUser
    /\ srvSessions = <<>>
    /\ srvReqs = <<>>
    /\ srvPosts = 0

NextDb ==
    \/ ClockAdvances
    \/ FeRegister
    \/ \E stars \in 1..MaxStars : FeAddSession(stars)

SpecDb == InitDb /\ [][NextDb]_vars

----------------------------------------------------------------------------
(* MockApiClient.updateSettings and addStory next to addSession *)

SettingsVals == {"default", "large"}

\* api.addSession of the current user
ProfileAddSession(stars) ==
    /\ dbUser # NoUser
    /\ FeAddSession(stars)

\* updateSettings / addStory up to `await db.getUser(username)`: the readonly
\* transaction is created, it reads the record as it is now
FeRewrite(op, arg) ==
    /\ dbUser # NoUser
    /\ dbRewrites < MaxRewrites
    /\ dbRewrites' = dbRewrites + 1
    /\ dbPending' = Append(dbPending, [ op |-> op, arg |-> arg,
                                        user |-> dbUser,
                                        profile |-> dbProfile ])
    /\ UNCHANGED <<dbUser, dbSessions, dbProfile>>
    /\ UNCHANGED besidesProfile

FeUpdateSettings(settings) == FeRewrite("updateSettings", settings)

FeAddStory == FeRewrite("addStory", dbRewrites + 1)

\* user.settings = settings / user.customStories = [story, ...]
Rewritten(profile, op, arg) ==
    IF op = "updateSettings"
    THEN [ profile EXCEPT !.settings = arg ]
    ELSE [ profile EXCEPT !.customStories = <<arg>> \o @ ]

\* db.getUser resolves; db.updateUser(user) puts the whole record that was
\* read
FeGetUserResolves(i) ==
    /\ i \in DOMAIN dbPending
    /\ dbUser' = dbPending[i].user
    /\ dbProfile' = Rewritten(dbPending[i].profile, dbPending[i].op,
                              dbPending[i].arg)
    /\ dbPending' = Without(dbPending, i)
    /\ UNCHANGED <<dbSessions, dbRewrites>>
    /\ UNCHANGED besidesProfile

InitProfile ==
    PlayerIdle /\ CodecIdle /\ OneShotIdle /\ ReaderIdle /\ StoresIdle
        /\ AppIdle

NextProfile ==
    \/ FeRegister
    \/ \E stars \in 1..MaxStars : ProfileAddSession(stars)
    \/ \E settings \in SettingsVals : FeUpdateSettings(settings)
    \/ FeAddStory
    \/ \E i \in 1..MaxRewrites : FeGetUserResolves(i)

SpecProfile == InitProfile /\ [][NextProfile]_vars

\* POST /api/register: INSERT INTO users with the defaults of the table
SrvRegister ==
    /\ srvUser = NoUser
    /\ srvUser' = [totalStars |-> 0, streak |-> 0, lastReadDate |-> SqlNull]
    /\ UNCHANGED <<srvSessions, srvReqs, srvPosts, clockVars, dbVars>>
    /\ UNCHANGED besidesStores /\ UNCHANGED appVars

\* POST /api/sessions arrives with the token of the registered user; its
\* INSERT INTO sessions is queued
SrvPost(stars) ==
    /\ srvUser # NoUser
    /\ srvPosts < MaxPosts
    /\ srvPosts' = srvPosts + 1
    /\ srvReqs' = Append(srvReqs, [pc |-> "insert", stars |-> stars,
                                   computed |-> NoUser])
    /\ UNCHANGED <<srvUser, srvSessions, clockVars, dbVars>>
    /\ UNCHANGED besidesStores /\ UNCHANGED appVars

\* The INSERT of request i has run; its callback queues the SELECT
SrvInsert(i) ==
    /\ i \in DOMAIN srvReqs
    /\ srvReqs[i].pc = "insert"
    /\ srvSessions' = Append(srvSessions, srvReqs[i].stars)
    /\ srvReqs' = [srvReqs EXCEPT ![i].pc = "select"]
    /\ UNCHANGED <<srvUser, srvPosts, clockVars, dbVars>>
    /\ UNCHANGED besidesStores /\ UNCHANGED appVars

\* The SELECT of request i has run; its callback computes the new aggregate
\* from the row it was given and queues the UPDATE
SrvSelect(i) ==
    /\ i \in DOMAIN srvReqs
    /\ srvReqs[i].pc = "select"
    /\ srvReqs' = [srvReqs EXCEPT
                     ![i].pc = "update",
                     ![i].computed =
                         ServerAggregate(srvUser, srvReqs[i].stars, dateNow)]
    /\ UNCHANGED <<srvUser, srvSessions, srvPosts, clockVars, dbVars>>
    /\ UNCHANGED besidesStores /\ UNCHANGED appVars

\* The UPDATE of request i has run; the response is sent
SrvUpdate(i) ==
    /\ i \in DOMAIN srvReqs
    /\ srvReqs[i].pc = "update"
    /\ srvUser' = srvReqs[i].computed
    /\ srvReqs' = Without(srvReqs, i)
    /\ UNCHANGED <<srvSessions, srvPosts, clockVars, dbVars>>
    /\ UNCHANGED besidesStores /\ UNCHANGED appVars

NextServer ==
    \/ ClockAdvances
    \/ SrvRegister
    \/ \E stars \in 1..MaxStars : SrvPost(stars)
    \/ \E i \in 1..MaxPosts : SrvInsert(i)
    \/ \E i \in 1..MaxPosts : SrvSelect(i)
    \/ \E i \in 1..MaxPosts : SrvUpdate(i)

SpecServer == InitDb /\ [][NextServer]_vars

----------------------------------------------------------------------------
(* MockApiClient / AuthService: the access token *)

\* 24 * 60 * 60 * 1000 ms, in hours
TokenLifetime == 24

\* The usernames that register; "ghost" is named by a token left in
\* localStorage by an installation whose database is gone
AuthNames == {"ann", "bob"}
Null == "null"

\* A token written under the same key by HttpApiClient (a JWT): atob() throws
ForeignToken == [ jwt |-> TRUE ]

\* generateToken(username): btoa(JSON.stringify({sub, iat, exp}))
generateToken(username, clock) ==
    [ sub |-> username, exp |-> clock + TokenLifetime ]

\* atob(token) and JSON.parse succeed
Decodes(token) == token # NoToken /\ token # ForeignToken

\* Faulty variant of verifyToken: the expiry is not looked at
verifyTokenNoExpiry(token, clock) ==
    IF ~Decodes(token) THEN Null ELSE token.sub

\* verifyToken(token): payload.sub, or null when the token does not decode or
\* Date.now() > payload.exp
verifyToken(token, clock) ==
    IF ~Decodes(token) THEN Null
    ELSE IF clock > token.exp THEN Null
    ELSE token.sub

\* The tokens that localStorage may hold when the application starts
StoredTokens ==
    { NoToken, ForeignToken, generateToken("ghost", 0) }

\* MockApiClient.register(username, ...): db.createUser, then the token
AuthRegister(username) ==
    /\ authOps < MaxAuthOps
    /\ username \notin authUsers
    /\ authUsers' = authUsers \cup {username}
    /\ authToken' = generateToken(username, dateNow)
    /\ authOps' = authOps + 1
    /\ loggedOut' = FALSE
    /\ UNCHANGED <<authCalls, authResults, authStarted>>
    /\ UNCHANGED clockVars /\ UNCHANGED besidesAuth

\* MockApiClient.login(username, password) with the right password
AuthLogin(username) ==
    /\ authOps < MaxAuthOps
    /\ username \in authUsers
    /\ authToken' = generateToken(username, dateNow)
    /\ authOps' = authOps + 1
    /\ loggedOut' = FALSE
    /\ UNCHANGED <<authUsers, authCalls, authResults, authStarted>>
    /\ UNCHANGED clockVars /\ UNCHANGED besidesAuth

\* AuthService.logout()
AuthLogout ==
    /\ authOps < MaxAuthOps
    /\ authToken' = NoToken
    /\ authOps' = authOps + 1
    /\ loggedOut' = TRUE
    /\ UNCHANGED <<authUsers, authCalls, authResults, authStarted>>
    /\ UNCHANGED clockVars /\ UNCHANGED besidesAuth

\* What a getCurrentUser call returned; hadToken: a token was stored when the
\* call was made
Returned(value, hadToken) == [ value |-> value, hadToken |-> hadToken ]

\* getCurrentUser() up to `await db.getUser(username)`
GetCurrentUser ==
    /\ authStarted < MaxAuthCalls
    /\ authStarted' = authStarted + 1
    /\ IF authToken = NoToken
       THEN /\ authResults' = Append(authResults, Returned(Null, FALSE))
            /\ UNCHANGED <<authToken, authCalls>>
       ELSE LET username == verifyToken(authToken, dateNow)
            IN  IF username = Null
                THEN /\ authToken' = NoToken
                     /\ authResults' = Append(authResults, Returned(Null, TRUE))
                     /\ UNCHANGED authCalls
                ELSE /\ authCalls' = Append(authCalls, [sub |-> username])
                     /\ UNCHANGED <<authToken, authResults>>
    /\ UNCHANGED <<authUsers, authOps, loggedOut>>
    /\ UNCHANGED clockVars /\ UNCHANGED besidesAuth

\* db.getUser(username) of the getCurrentUser call i resolves
GetUserResolves(i) ==
    /\ i \in DOMAIN authCalls
    /\ IF authCalls[i].sub \in authUsers
       THEN /\ authResults' =
                 Append(authResults, Returned(authCalls[i].sub, TRUE))
            /\ UNCHANGED authToken
       ELSE /\ authToken' = NoToken
            /\ authResults' = Append(authResults, Returned(Null, TRUE))
    /\ authCalls' = Without(authCalls, i)
    /\ UNCHANGED <<authUsers, authStarted, authOps, loggedOut>>
    /\ UNCHANGED clockVars /\ UNCHANGED besidesAuth

InitAuth ==
    /\ PlayerIdle /\ CodecIdle /\ OneShotIdle /\ ReaderIdle /\ StoresIdle
    /\ LiveIdle /\ TutorIdle /\ ProfileIdle /\ PracticeIdle
    /\ authToken \in StoredTokens
    /\ authUsers = {}
    /\ authCalls = <<>>
    /\ authResults = <<>>
    /\ authStarted = 0
    /\ authOps = 0
    /\ loggedOut = FALSE

NextAuth ==
    \/ ClockAdvances
    \/ \E username \in AuthNames : AuthRegister(username)
    \/ \E username \in AuthNames : AuthLogin(username)
    \/ AuthLogout
    \/ GetCurrentUser
    \/ \E i \in 1..MaxAuthCalls : GetUserResolves(i)

SpecAuth == InitAuth /\ [][NextAuth]_vars

----------------------------------------------------------------------------
(* PhonemePractice of src/unnamed/part_002 *)

PracticeCategories == {"b_d", "p_q"}

\* The words getTrickyWords returns for a category: n words, each named by
\* its category and its position
TrickyWords(cat, n) == [ i \in 1..n |-> <<cat, i>> ]

\* words[index], with the index counted from 0 as in the code
WordAt(list, index) == list[index + 1]

\* useState<string | null>(null) of currentImage; an image is named by the
\* word it illustrates
NoImage == <<"null", 0>>

\* if (base64) setCurrentImage(...): the illustration of the word replaces
\* the image
ImageShown(image, word, base64) ==
    IF base64 THEN word ELSE image

\* A category button: startPractice up to `await getTrickyWords(...)`
StartPractice(cat) ==
    /\ selectedCategory = "null"
    /\ ~loading
    /\ practiceStarts < MaxStarts
    /\ practiceStarts' = practiceStarts + 1
    /\ selectedCategory' = cat
    /\ loading' = TRUE
    /\ words' = <<>>
    /\ currentIndex' = 0
    /\ result' = FALSE
    /\ currentImage' = NoImage
    /\ wordReqs' = Append(wordReqs, cat)
    /\ UNCHANGED imageReqs
    /\ UNCHANGED besidesPractice

\* getTrickyWords resolves with n words: setWords, loadImageForWord of the
\* first word up to `await generateWordIllustration(word)`; a rejection
\* leaves the words empty as n = 0 does
WordsArrive(n) ==
    /\ wordReqs # <<>>
    /\ LET fetchedWords == TrickyWords(Head(wordReqs), n)
       IN  /\ words' = fetchedWords
           /\ IF n > 0
              THEN /\ currentImage' = NoImage
                   /\ imageReqs' = Append(imageReqs, fetchedWords[1])
              ELSE UNCHANGED <<currentImage, imageReqs>>
    /\ loading' = FALSE
    /\ wordReqs' = Tail(wordReqs)
    /\ UNCHANGED <<selectedCategory, currentIndex, result, practiceStarts>>
    /\ UNCHANGED besidesPractice

\* toggleRecording ends with a correct result: the Next Word button appears
ResultCorrect ==
    /\ selectedCategory # "null"
    /\ ~result
    /\ result' = TRUE
    /\ UNCHANGED <<selectedCategory, words, currentIndex, currentImage,
                   loading, wordReqs, imageReqs, practiceStarts>>
    /\ UNCHANGED besidesPractice

\* The Next Word button: handleNext, with loadImageForWord up to its await
HandleNext ==
    /\ selectedCategory # "null"
    /\ result
    /\ IF currentIndex < Len(words) - 1
       THEN /\ currentIndex' = currentIndex + 1
            /\ result' = FALSE
            /\ currentImage' = NoImage
            /\ imageReqs' = Append(imageReqs, WordAt(words, currentIndex + 1))
            /\ UNCHANGED selectedCategory
       ELSE /\ selectedCategory' = "null"
            /\ UNCHANGED <<currentIndex, result, currentImage, imageReqs>>
    /\ UNCHANGED <<words, loading, wordReqs, practiceStarts>>
    /\ UNCHANGED besidesPractice

\* generateWordIllustration of request i resolves, with an image (base64) or
\* with null
ImageArrives(i, base64) ==
    /\ i \in DOMAIN imageReqs
    /\ currentImage' = ImageShown(currentImage, imageReqs[i], base64)
    /\ imageReqs' = Without(imageReqs, i)
    /\ UNCHANGED <<selectedCategory, words, currentIndex, loading, result,
                   wordReqs, practiceStarts>>
    /\ UNCHANGED besidesPractice

InitPractice ==
    PlayerIdle /\ CodecIdle /\ OneShotIdle /\ ReaderIdle /\ StoresIdle
        /\ AppIdle

NextPractice ==
    \/ \E cat \in PracticeCategories : StartPractice(cat)
    \/ \E n \in 0..MaxWords : WordsArrive(n)
    \/ ResultCorrect
    \/ HandleNext
    \/ \E i \in 1..(MaxWords * MaxStarts), base64 \in BOOLEAN :
         ImageArrives(i, base64)

SpecPractice == InitPractice /\ [][NextPractice]_vars

----------------------------------------------------------------------------
(* ReadBuddyLive of src/services/gemini.ts *)

\* private currentSession: any = null
NoSession == 0

\* Faulty variant of Forwards: sendAudio does not test currentSession
ForwardsAlways(session) == TRUE

\* if (this.currentSession)
Forwards(session) == session # NoSession

\* new ReadBuddyLive()
newReadBuddyLive ==
    /\ live' = Append(live, NoSession)
    /\ lastEvent' = Append(lastEvent, "new")

\* connect() up to `await ai.live.connect(...)`: the session is being opened
connect(s) ==
    sockets' = Append(sockets, [owner |-> s, state |-> "connecting",
                                received |-> 0])

\* ai.live.connect resolves: this.currentSession = the session
connected(k) ==
    /\ sockets' = [sockets EXCEPT ![k].state = "open"]
    /\ live' = [live EXCEPT ![sockets[k].owner] = k]
    /\ lastEvent' = [lastEvent EXCEPT ![sockets[k].owner] = "connected"]

\* ai.live.connect rejects: connect() rejects before the assignment
connectFailed(k) ==
    sockets' = [sockets EXCEPT ![k].state = "failed"]

\* sendAudio(base64Audio): sendRealtimeInput on the current session; on null
\* the call of sendRealtimeInput throws a TypeError
sendAudio(s) ==
    /\ sendCalls' = sendCalls + 1
    /\ IF Forwards(live[s])
       THEN IF live[s] = NoSession
            THEN /\ sendErrors' = sendErrors + 1
                 /\ UNCHANGED sockets
            ELSE /\ sockets' = [sockets EXCEPT ![live[s]].received = @ + 1]
                 /\ UNCHANGED sendErrors
       ELSE UNCHANGED <<sockets, sendErrors>>

\* disconnect(): this.currentSession = null; the session itself is not closed
disconnect(s) ==
    /\ live' = [live EXCEPT ![s] = NoSession]
    /\ lastEvent' = [lastEvent EXCEPT ![s] = "disconnected"]

\* The methods of ReadBuddyLive, called in any order
LiveNew ==
    /\ Len(live) < MaxLive
    /\ newReadBuddyLive
    /\ UNCHANGED <<sockets, sendCalls, sendErrors>>
    /\ UNCHANGED besidesLive

LiveConnect(s) ==
    /\ s \in DOMAIN live
    /\ Len(sockets) < MaxSockets
    /\ connect(s)
    /\ UNCHANGED <<live, sendCalls, sendErrors, lastEvent>>
    /\ UNCHANGED besidesLive

LiveConnected(k) ==
    /\ k \in DOMAIN sockets
    /\ sockets[k].state = "connecting"
    /\ connected(k)
    /\ UNCHANGED <<sendCalls, sendErrors>>
    /\ UNCHANGED besidesLive

LiveConnectFailed(k) ==
    /\ k \in DOMAIN sockets
    /\ sockets[k].state = "connecting"
    /\ connectFailed(k)
    /\ UNCHANGED <<live, sendCalls, sendErrors, lastEvent>>
    /\ UNCHANGED besidesLive

LiveSendAudio(s) ==
    /\ s \in DOMAIN live
    /\ sendCalls < MaxSends
    /\ sendAudio(s)
    /\ UNCHANGED <<live, lastEvent>>
    /\ UNCHANGED besidesLive

LiveDisconnect(s) ==
    /\ s \in DOMAIN live
    /\ disconnect(s)
    /\ UNCHANGED <<sockets, sendCalls, sendErrors>>
    /\ UNCHANGED besidesLive

InitSession ==
    PlayerIdle /\ CodecIdle /\ OneShotIdle /\ ReaderIdle /\ StoresIdle
        /\ AppIdle

NextSession ==
    \/ LiveNew
    \/ \E s \in 1..MaxLive :
         \/ LiveConnect(s)
         \/ LiveSendAudio(s)
         \/ LiveDisconnect(s)
    \/ \E k \in 1..MaxSockets :
         \/ LiveConnected(k)
         \/ LiveConnectFailed(k)

SpecSession == InitSession /\ [][NextSession]_vars

----------------------------------------------------------------------------
(* TextReader in Live Tutor mode, with its sessions and its player *)

\* if (!liveAudioPlayer.current) liveAudioPlayer.current = new LiveAudioPlayer()
MakePlayer ==
    /\ playerMade' = TRUE
    /\ IF playerMade
       THEN UNCHANGED ctxState
       ELSE ctxState' \in {"suspended", "running"}
    /\ UNCHANGED <<currentTime, nextStartTime, queue, sources, awaiting,
                   microtasks, failed, calls, stops, callsAtStop>>

\* startLiveSession up to `await session.connect(...)`
StartLiveSession ==
    /\ Len(live) < MaxLive
    /\ Len(sockets) < MaxSockets
    /\ MakePlayer
    /\ newReadBuddyLive
    /\ connect(Len(live) + 1)
    /\ inflight' = Append(inflight, [op |-> "connect",
                                     session |-> Len(live) + 1,
                                     socket |-> Len(sockets) + 1])
    /\ UNCHANGED <<liveSession, micStream, capturing, liveRef, processorNode,
                   processors>>

\* stopLiveSession(), every statement of it
StopLiveSessionWhole ==
    /\ StopLiveSession
    /\ IF liveRef # 0
       THEN disconnect(liveRef)
       ELSE UNCHANGED <<live, lastEvent>>
    /\ liveRef' = 0
    /\ processors' = processors \ {processorNode}
    /\ processorNode' = 0
    /\ IF playerMade THEN StopCall ELSE UNCHANGED playerVars
    /\ UNCHANGED <<sockets, inflight, playerMade>>

\* The record button in Live Tutor mode: handleToggleRecord up to its first
\* await
TutorPressRecord ==
    /\ TaskMayRun
    /\ isLiveMode
    /\ presses < MaxPresses
    /\ presses' = presses + 1
    /\ IF isRecording
       THEN /\ StopLiveSessionWhole
            /\ isRecording' = FALSE
       ELSE /\ StartLiveSession
            /\ UNCHANGED isRecording
    /\ UNCHANGED <<isLiveMode, mediaRecorder, alerts, unhandled, denials,
                   captures, sendCalls, sendErrors, delivered>>
    /\ UNCHANGED besidesTutor

\* session.connect() resolves: setLiveSession(session); getUserMedia is
\* awaited next
TutorConnected(i) ==
    /\ TaskMayRun
    /\ i \in DOMAIN inflight
    /\ inflight[i].op = "connect"
    /\ connected(inflight[i].socket)
    /\ liveSession' = TRUE
    /\ liveRef' = inflight[i].session
    /\ inflight' = [inflight EXCEPT ![i].op = "getUserMedia"]
    /\ UNCHANGED <<isLiveMode, isRecording, mediaRecorder, micStream,
                   capturing, alerts, unhandled, presses, denials, captures>>
    /\ UNCHANGED <<sendCalls, sendErrors, processorNode, processors,
                   playerMade, delivered>>
    /\ UNCHANGED playerVars
    /\ UNCHANGED besidesTutor

\* session.connect() rejects
TutorConnectFails(i) ==
    /\ TaskMayRun
    /\ i \in DOMAIN inflight
    /\ inflight[i].op = "connect"
    /\ connectFailed(inflight[i].socket)
    /\ Rejected(i)
    /\ UNCHANGED <<isLiveMode, mediaRecorder, liveSession, micStream,
                   capturing, presses, denials, captures>>
    /\ UNCHANGED <<live, sendCalls, sendErrors, lastEvent>>
    /\ UNCHANGED tutorVars
    /\ UNCHANGED playerVars
    /\ UNCHANGED besidesTutor

\* getUserMedia resolves: the processor is created and connected, its
\* onaudioprocess sends to the session of this call
TutorMicStarts(i) ==
    /\ TaskMayRun
    /\ i \in DOMAIN inflight
    /\ inflight[i].op = "getUserMedia"
    /\ captures' = captures + 1
    /\ capturing' = capturing \cup {captures + 1}
    /\ micStream' = captures + 1
    /\ processorNode' = inflight[i].session
    /\ processors' = processors \cup {inflight[i].session}
    /\ isRecording' = TRUE
    /\ inflight' = Without(inflight, i)
    /\ UNCHANGED <<isLiveMode, mediaRecorder, liveSession, alerts, unhandled,
                   presses, denials>>
    /\ UNCHANGED <<liveRef, playerMade, delivered>>
    /\ UNCHANGED liveVars
    /\ UNCHANGED playerVars
    /\ UNCHANGED besidesTutor

\* getUserMedia rejects
TutorMicDenied(i) ==
    /\ TaskMayRun
    /\ i \in DOMAIN inflight
    /\ inflight[i].op = "getUserMedia"
    /\ Rejected(i)
    /\ denials' = denials + 1
    /\ UNCHANGED <<isLiveMode, mediaRecorder, liveSession, micStream,
                   capturing, presses, captures>>
    /\ UNCHANGED liveVars
    /\ UNCHANGED tutorVars
    /\ UNCHANGED playerVars
    /\ UNCHANGED besidesTutor

\* processorNode.onaudioprocess: session.sendAudio(base64)
Onaudioprocess(s) ==
    /\ TaskMayRun
    /\ s \in processors
    /\ sendCalls < MaxTutorSends
    /\ sendAudio(s)
    /\ UNCHANGED <<live, lastEvent>>
    /\ UNCHANGED tutorVars
    /\ UNCHANGED readerVars
    /\ UNCHANGED playerVars
    /\ UNCHANGED besidesTutor

\* The audio of a message: one frame, or one frame and an odd byte
TutorChunks == {2, 3}

\* onmessage of an open session with audio of nbytes bytes:
\* liveAudioPlayer.current?.playChunk(base64Audio)
Onmessage(k, nbytes) ==
    /\ k \in DOMAIN sockets
    /\ sockets[k].state = "open"
    /\ playerMade
    /\ calls < MaxLiveChunks
    /\ PlayChunkCall(nbytes)
    /\ delivered' = Append(delivered, k)
    /\ UNCHANGED <<liveRef, processorNode, processors, playerMade>>
    /\ UNCHANGED liveVars
    /\ UNCHANGED readerVars
    /\ UNCHANGED besidesTutor

InitTutor ==
    PlayerIdle /\ CodecIdle /\ OneShotIdle /\ ReaderIdle /\ StoresIdle
        /\ AppIdle

NextTutor ==
    \/ PressLive
    \/ TutorPressRecord
    \/ \E i \in 1..MaxPresses :
         \/ TutorConnected(i)
         \/ TutorConnectFails(i)
         \/ TutorMicStarts(i)
         \/ TutorMicDenied(i)
    \/ \E s \in 1..MaxLive : Onaudioprocess(s)
    \/ \E k \in 1..MaxSockets, nbytes \in TutorChunks : Onmessage(k, nbytes)
    \/ ContextStarts
    \/ ResumePlayChunk
    \/ \E i \in 1..MaxCalls : Onended(i)

SpecTutor == InitTutor /\ [][NextTutor]_vars

----------------------------------------------------------------------------
(* Properties of LiveAudioPlayer, checked under Spec *)

\* The first source scheduled in the session of source i
FirstInSession(i) ==
    CHOOSE k \in 1..i :
        /\ sources[k].session = sources[i].session
        /\ \A m \in 1..(k - 1) : sources[m].session # sources[i].session

RECURSIVE SumDurations(_, _)
\* d(from) + ... + d(to) over the sources from..to
SumDurations(from, to) ==
    IF from > to THEN 0
    ELSE Duration(sources[from].frames) + SumDurations(from + 1, to)

\* C1: two playChunk calls made with no stop() between them are scheduled in
\* the order of the calls, also when they were suspended at the resume: the
\* earlier call's source is created first and does not start later.
C1_CallOrderKept ==
    \A i, j \in DOMAIN sources :
        (sources[i].call < sources[j].call
            /\ sources[i].callStops = sources[j].callStops)
        => (i < j /\ sources[i].start <= sources[j].start)

\* C1 witness: two calls of one session, both suspended at the resume, the
\* second made while the first was waiting, are both scheduled.
C1_Witness ==
    \E i, j \in DOMAIN sources :
        /\ sources[i].call < sources[j].call
        /\ sources[i].callStops = sources[j].callStops
        /\ sources[i].suspended /\ sources[j].suspended
        /\ sources[i].start < sources[j].start

\* C2: in a session whose chunks after the first never found the cursor
\* behind the clock, chunk i starts at the start of the session's first chunk
\* plus the durations of the chunks before it, and the cursor stands at the
\* end of the last chunk scheduled in the running session.
C2_ContiguousStarts ==
    /\ \A i \in DOMAIN sources :
        LET first == FirstInSession(i)
        IN  (\A k \in (first + 1)..i : ~sources[k].late)
            => sources[i].start
                 = sources[first].start + SumDurations(first, i - 1)
    /\ (sources # <<>> /\ sources[Len(sources)].session = stops)
        => nextStartTime = sources[Len(sources)].start
                             + Duration(sources[Len(sources)].frames)

\* C2 witness: three chunks of one session, the first starting at 0, of equal
\* duration d, scheduled at 0, d and 2d.
C2_Witness ==
    /\ Len(sources) = 3
    /\ \A i \in 1..3 : sources[i].session = sources[1].session
    /\ \A i \in 1..3 : sources[i].frames = sources[1].frames
    /\ sources[1].start = 0
    /\ sources[2].start = Duration(sources[1].frames)
    /\ sources[3].start = 2 * Duration(sources[1].frames)
    /\ nextStartTime = 3 * Duration(sources[1].frames)

\* A step that schedules a chunk
Schedules == Len(sources') = Len(sources) + 1

\* C3: a chunk scheduled while the cursor is behind the clock starts at the
\* clock time and leaves the cursor at the clock time plus its duration.
C3_LateArrival ==
    [][ (Schedules /\ nextStartTime < currentTime)
        => /\ sources'[Len(sources')].start = currentTime
           /\ nextStartTime' = currentTime
                                 + Duration(sources'[Len(sources')].frames) ]_vars

\* C3 witness: a chunk arrived after the end of the chunk before it in the
\* same session and was started at the clock time, leaving a gap.
C3_Witness ==
    \E i \in DOMAIN sources :
        /\ i > 1
        /\ sources[i].late
        /\ sources[i - 1].session = sources[i].session
        /\ sources[i].start
             > sources[i - 1].start + Duration(sources[i - 1].frames)
        /\ nextStartTime = sources[i].start + Duration(sources[i].frames)

\* C4: the playback intervals [start, start + duration) of two chunks
\* scheduled in the same session are disjoint.
C4_NoOverlap ==
    \A i, j \in DOMAIN sources :
        (i < j /\ sources[i].session = sources[j].session)
        => sources[i].start + Duration(sources[i].frames) <= sources[j].start

\* C4 witness: a session of three chunks with a late chunk after a gap and a
\* back-to-back pair.
C4_Witness ==
    /\ Len(sources) = 3
    /\ sources[1].session = sources[3].session
    /\ sources[2].late
    /\ sources[2].start > sources[1].start + Duration(sources[1].frames)
    /\ sources[3].start = sources[2].start + Duration(sources[2].frames)

\* A step in which stop() runs
Stopping == stops' = stops + 1

\* A source that is scheduled or playing at time now and was not stopped
Live(src, now) == ~src.stopCalled /\ now < src.start + Duration(src.frames)

\* C5: after stop() no source that was scheduled for later or was playing is
\* left running, the active set is empty and the cursor is 0.
C5_StopHaltsAll ==
    [][ Stopping
        => /\ \A i \in DOMAIN sources' : ~Live(sources'[i], currentTime')
           /\ queue' = <<>>
           /\ nextStartTime' = 0 ]_vars

\* C5 witness: stop() has halted a source that was playing and a source that
\* had not started yet.
C5_Witness ==
    /\ stops >= 1
    /\ queue = <<>>
    /\ nextStartTime = 0
    /\ \E i, j \in DOMAIN sources :
        /\ sources[i].stopCalled /\ sources[j].stopCalled
        /\ sources[i].start <= currentTime
        /\ currentTime < sources[i].start + Duration(sources[i].frames)
        /\ currentTime < sources[j].start

\* C6: stop() with an empty active set changes no source and rejects no
\* call, and leaves the active set empty and the cursor 0; in the state that a
\* stop() leaves (empty set, cursor 0) a further stop() changes nothing.
C6_StopIdempotent ==
    [][ (Stopping /\ queue = <<>>)
        => /\ sources' = sources
           /\ failed' = failed
           /\ queue' = <<>>
           /\ nextStartTime' = 0
           /\ (nextStartTime = 0 => UNCHANGED <<queue, nextStartTime>>) ]_vars

\* C6 witness: stop() ran twice with no playChunk call between the two, after
\* chunks had been scheduled.
C6_Witness ==
    /\ stops = 2
    /\ callsAtStop = calls
    /\ sources # <<>>
    /\ \A i \in DOMAIN sources : sources[i].session = 0
    /\ \A i \in DOMAIN sources : sources[i].call <= calls
    /\ awaiting = <<>> /\ microtasks = <<>>
    /\ queue = <<>> /\ nextStartTime = 0

\* C7 (as claimed): the chunk of the first playChunk call after a stop() is
\* scheduled as a fresh player would schedule it at that moment: it starts at
\* StartAt(0, currentTime), the cursor becomes that start plus its duration,
\* and it is alone in the active set.
C7_FreshAfterStop ==
    [][ (Schedules
            /\ stops >= 1
            /\ sources'[Len(sources')].callStops = stops
            /\ sources'[Len(sources')].call = callsAtStop + 1)
        => /\ sources'[Len(sources')].start = StartAt(0, currentTime)
           /\ nextStartTime'
                = AdvanceCursor(StartAt(0, currentTime),
                                Duration(sources'[Len(sources')].frames))
           /\ queue' = <<Len(sources')>> ]_vars

\* C8: the active set holds exactly the sources scheduled since the last
\* stop() whose ended event has not fired, each once.
C8_ActiveSetExact ==
    /\ Range(queue) = { i \in DOMAIN sources :
                          sources[i].session = stops /\ ~sources[i].ended }
    /\ \A m, n \in DOMAIN queue : queue[m] = queue[n] => m = n

\* C8 witness: the ended event of a source that stop() halted in an earlier
\* session has fired, and a source of the running session is in the active
\* set.
C8_Witness ==
    /\ queue # <<>>
    /\ \E i \in DOMAIN sources :
        /\ sources[i].session < stops
        /\ sources[i].stopCalled
        /\ sources[i].ended

\* C9: a step other than stop() never decreases the cursor.
C9_CursorMonotone ==
    [][ ~Stopping => nextStartTime' >= nextStartTime ]_vars

\* C9 witness: in one session the cursor was snapped forward to the clock by
\* a late chunk after it had been advanced by an earlier one.
C9_Witness ==
    \E i \in DOMAIN sources :
        /\ i > 1
        /\ sources[i].session = stops
        /\ sources[i - 1].session = stops
        /\ sources[i].late
        /\ i = Len(sources)
        /\ nextStartTime > sources[i - 1].start + Duration(sources[i - 1].frames)

----------------------------------------------------------------------------
(* Properties of playPCMAudio, checked under SpecOneShot *)

\* The playPCMAudio call c has run its decode step
ReachedDecode(c) ==
    c.pc \in {"resolved", "rejected"} /\ c.step \notin {"create", "resume"}

\* The one-shot source created by call k, if any
SourceOf(k) == { i \in DOMAIN osSources : osSources[i].call = k }

\* C15: a byte sequence of odd length is never decoded: playPCMAudio and
\* playChunk both end with the RangeError and create no source, and two
\* playPCMAudio calls with the same payload end at the same statement, with
\* the same error and the same number of frames.
C15_OnePolicy ==
    /\ \A k \in DOMAIN osCalls :
         /\ ReachedDecode(osCalls[k])
         /\ osCalls[k].payload # InvalidBase64 /\ osCalls[k].payload % 2 = 1
         => /\ osCalls[k].step = "view"
            /\ osCalls[k].error = "RangeError"
            /\ SourceOf(k) = {}
    /\ \A j \in DOMAIN failed :
         failed[j].malformed => failed[j].error = "RangeError"
    /\ \A i \in DOMAIN sources : sources[i].bytes % 2 = 0
    /\ \A k, l \in DOMAIN osCalls :
         /\ ReachedDecode(osCalls[k]) /\ ReachedDecode(osCalls[l])
         /\ osCalls[k].payload = osCalls[l].payload
         /\ osCalls[k].step # "start" /\ osCalls[l].step # "start"
         => /\ osCalls[k].step = osCalls[l].step
            /\ osCalls[k].error = osCalls[l].error
            /\ { osSources[i].frames : i \in SourceOf(k) }
                 = { osSources[i].frames : i \in SourceOf(l) }

\* C15 witness: the same three bytes went to playPCMAudio twice and to
\* playChunk once, and all three calls ended with the RangeError.
C15_Witness ==
    /\ Len(osCalls) = 2
    /\ \A k \in 1..2 : osCalls[k].payload = 3 /\ osCalls[k].error = "RangeError"
    /\ Len(failed) = 1 /\ failed[1].malformed /\ failed[1].error = "RangeError"
    /\ osSources = <<>> /\ sources = <<>>

\* C16: no playPCMAudio call rejects; a call that met an exception, at
\* whichever statement, has logged it and its promise is resolved.
C16_NeverRejects ==
    \A k \in DOMAIN osCalls :
        /\ osCalls[k].pc # "rejected"
        /\ osCalls[k].error # "none"
             => osCalls[k].pc = "resolved" /\ osCalls[k].logged

\* C16 witness: the context could not be created for the first call, the
\* second call was given an odd number of bytes; both are resolved.
C16_Witness ==
    /\ Len(osCalls) = 2
    /\ osCalls[1].step = "create" /\ osCalls[1].pc = "resolved"
    /\ osCalls[2].step = "view" /\ osCalls[2].pc = "resolved"
    /\ osCalls[1].logged /\ osCalls[2].logged

\* C17: a one-shot source starts at the clock time of its context at the
\* moment it is created and its call is resolved in the same step, before
\* the ended event; the ended event comes later, when the call is already
\* resolved; and no step of playPCMAudio or of its context changes the
\* cursor, the active set or any other field of a LiveAudioPlayer.
C17_ImmediateAndIndependent ==
    [][ /\ Len(osSources') > Len(osSources)
             => LET n == osSources'[Len(osSources')]
                IN  /\ n.start = osTime
                    /\ ~n.ended
                    /\ osCalls'[n.call].pc = "resolved"
        /\ \A i \in DOMAIN osSources :
             ~osSources[i].ended /\ osSources'[i].ended
             => /\ osCalls[osSources[i].call].pc = "resolved"
                /\ osTime > osSources[i].start
        /\ oneShotVars' # oneShotVars => UNCHANGED playerVars
      ]_vars

\* C17 witness: a live chunk has moved the player's cursor to 2; a one-shot
\* source started at time 1 of its own context, its call is resolved and it
\* has not ended.
C17_Witness ==
    /\ nextStartTime = 2 /\ queue = <<1>>
    /\ Len(osSources) = 1
    /\ osSources[1].start = 1 /\ ~osSources[1].ended
    /\ osCalls[osSources[1].call].pc = "resolved"

----------------------------------------------------------------------------
(* Properties of TextReader, checked under SpecReader *)

\* C18: every refused microphone request ends in a catch block of the UI,
\* which shows a message: the one of handleToggleRecord when startRecording
\* was refused, the one of startLiveSession when its getUserMedia was
\* refused; no rejection is left unhandled.
C18_DenialShown ==
    [][ /\ unhandled' = 0
        /\ denials' # denials
             => /\ Len(alerts') = Len(alerts) + 1
                /\ \E i \in DOMAIN inflight :
                     /\ inflight' = Without(inflight, i)
                     /\ alerts'[Len(alerts')] =
                          IF inflight[i].op = "startRecording"
                          THEN StandardAlert ELSE LiveAlert
      ]_vars

\* C18 witness: the microphone was refused once in each path, and each
\* refusal was answered with the message of its path.
C18_Witness ==
    /\ denials = 2 /\ unhandled = 0
    /\ alerts = <<StandardAlert, LiveAlert>>

----------------------------------------------------------------------------
(* Properties of the session stores, checked under SpecDb and SpecServer *)

\* The calendar day before the day of the instant t, as text
CalendarYesterday(t) == ToString(DayOf(t) - 1)

\* C19: addSession for an existing user adds the stars of the session, sets
\* lastReadDate to today, and leaves the streak as it is when lastReadDate is
\* today, adds 1 when lastReadDate is yesterday, and sets it to 1 otherwise;
\* so the streak is at least 1 afterwards and a second session on the same
\* day leaves it unchanged.
C19_StreakRule ==
    [][ Len(dbSessions') > Len(dbSessions) /\ dbUser # NoUser
          => LET stars == dbSessions'[Len(dbSessions')]
                 today == DateString(dateNow)
             IN  /\ dbUser'.totalStars = dbUser.totalStars + stars
                 /\ dbUser'.lastReadDate = today
                 /\ dbUser'.streak =
                      IF dbUser.lastReadDate = today THEN dbUser.streak
                      ELSE IF dbUser.lastReadDate = CalendarYesterday(dateNow)
                      THEN dbUser.streak + 1
                      ELSE 1
                 /\ dbUser'.streak >= 1
      ]_vars

\* The rule of C19 on the days that are not next to a clock change: there
\* the instant 24 hours ago lies in the calendar day before today.
C19_StreakRuleOnPlainDays ==
    [][ ( /\ Len(dbSessions') > Len(dbSessions)
          /\ dbUser # NoUser
          /\ DateString(dateNow - DayMs) = CalendarYesterday(dateNow) )
          => /\ dbUser'.totalStars
                  = dbUser.totalStars + dbSessions'[Len(dbSessions')]
             /\ dbUser'.lastReadDate = DateString(dateNow)
             /\ dbUser'.streak =
                  IF dbUser.lastReadDate = DateString(dateNow) THEN dbUser.streak
                  ELSE IF dbUser.lastReadDate = CalendarYesterday(dateNow)
                  THEN dbUser.streak + 1
                  ELSE 1
             /\ dbUser'.streak >= 1
      ]_vars

\* C20: the aggregate that POST /api/sessions computes from the row it has
\* read is the one DatabaseService.addSession computes from the same record,
\* session and instant, and the UPDATE writes exactly that aggregate.
C20_SameAsFrontend ==
    [][ /\ \A i \in DOMAIN srvReqs :
              ( /\ srvReqs[i].pc = "select"
                /\ Len(srvReqs') = Len(srvReqs)
                /\ srvReqs'[i].pc = "update" )
              => srvReqs'[i].computed
                   = FrontendAggregate(srvUser, srvReqs[i].stars, dateNow)
        /\ srvUser' # srvUser /\ srvUser # NoUser
              => \E j \in DOMAIN srvReqs :
                   /\ srvReqs[j].pc = "update"
                   /\ srvReqs' = Without(srvReqs, j)
                   /\ srvUser' = srvReqs[j].computed
      ]_vars

\* C20 witness: the server has handled the first session of a new user
\* (lastReadDate NULL) and a session on the next day; the streak is 2.
C20_Witness ==
    /\ srvUser # NoUser
    /\ Len(srvSessions) = 2 /\ srvReqs = <<>>
    /\ srvUser.streak = 2
    /\ srvUser.lastReadDate = DateString(dateNow)

----------------------------------------------------------------------------
(* Cancellation of suspended playChunk calls, checked under Spec *)

\* C23 (as claimed): a chunk is scheduled only by a playChunk call made after
\* the last stop(): a call suspended at `await context.resume()` when stop()
\* runs schedules nothing afterwards
C23_StopCancelsSuspended ==
    [][ Schedules => sources'[Len(sources')].callStops = stops ]_vars

----------------------------------------------------------------------------
(* Properties of the access token, checked under SpecAuth *)

\* The result that the step has appended to authResults
LastResult == authResults'[Len(authResults')]

----------------------------------------------------------------------------
(* Properties of ReadBuddyLive, checked under SpecSession *)

\* The audio received by all sessions together
Received(socks) ==
    LET RECURSIVE Sum(_)
        Sum(k) == IF k = 0 THEN 0 ELSE socks[k].received + Sum(k - 1)
    IN  Sum(Len(socks))

\* C22: a sendAudio call on an object forwards the audio, to the session of
\* the connect() that resolved last, when a connect() of the object has
\* resolved and no disconnect() has run since; any other sendAudio call sends
\* nothing and raises no error
C22_SendsOnlyConnected ==
    [][ sendCalls' # sendCalls =>
          \E s \in DOMAIN live :
            IF lastEvent[s] = "connected"
            THEN /\ live[s] \in DOMAIN sockets
                 /\ sockets[live[s]].state = "open"
                 /\ sockets[live[s]].owner = s
                 /\ sockets' = [sockets EXCEPT ![live[s]].received = @ + 1]
                 /\ sendErrors' = sendErrors
            ELSE /\ Received(sockets') = Received(sockets)
                 /\ sendErrors' = sendErrors
      ]_vars

\* sendAudio has been called before any connect resolved, after a disconnect
\* and in between; only the one in between was forwarded
C22_Witness ==
    /\ sendCalls = 3
    /\ Received(sockets) = 1
    /\ sendErrors = 0
    /\ \E s \in DOMAIN live : lastEvent[s] = "disconnected"
    /\ Len(live) = 1

----------------------------------------------------------------------------
(* Properties of the Live Tutor mode, checked under SpecTutor *)

\* C24 (as claimed): once stopLiveSession has disconnected a session, no
\* audio delivered by that session reaches playChunk
C24_SilentAfterStop ==
    [][ Len(delivered') > Len(delivered)
          => lastEvent[sockets[delivered'[Len(delivered')]].owner]
                # "disconnected" ]_vars

----------------------------------------------------------------------------
(* Properties of the user's record, checked under SpecProfile *)

RECURSIVE SumStars(_)
SumStars(stars) ==
    IF stars = <<>> THEN 0 ELSE Head(stars) + SumStars(Tail(stars))

\* C25 (as claimed): when no updateSettings or addStory call is pending, the
\* user's totalStars is the sum of the stars of the stored sessions
C25_StarsAreSessionStars ==
    (dbUser # NoUser /\ dbPending = <<>>)
        => dbUser.totalStars = SumStars(dbSessions)

\* Without updateSettings and addStory calls totalStars is that sum
C25_StarsWithoutRewrites ==
    (dbUser # NoUser /\ dbRewrites = 0)
        => dbUser.totalStars = SumStars(dbSessions)

----------------------------------------------------------------------------
(* Concurrent POST /api/sessions requests, checked under SpecServer *)

\* C26 (as claimed): when every request has been answered, each of them has
\* stored its session and totalStars is the sum of the stars of the stored
\* sessions: no increment is lost
C26_NoLostIncrement ==
    (srvUser # NoUser /\ srvReqs = <<>>)
        => /\ Len(srvSessions) = srvPosts
           /\ srvUser.totalStars = SumStars(srvSessions)

----------------------------------------------------------------------------
(* The recording state of TextReader, checked under SpecReader *)

\* C27 (as claimed): whenever isRecording is false no microphone capture is
\* active
C27_IdleMeansNoCapture ==
    ~isRecording => capturing = {}

\* C28 (as claimed): when startLiveSession has failed and shown its message,
\* isRecording is false
C28_FailedStartNotRecording ==
    [][ (Len(alerts') > Len(alerts) /\ alerts'[Len(alerts')] = LiveAlert)
          => ~isRecording' ]_vars

----------------------------------------------------------------------------
(* Properties of PhonemePractice, checked under SpecPractice *)

\* C29 (as claimed): on the practice screen, once no word or image request is
\* pending, currentImage is the illustration of the word at currentIndex, or
\* null
C29_ImageOfCurrentWord ==
    (/\ selectedCategory # "null"
     /\ wordReqs = <<>> /\ imageReqs = <<>>
     /\ currentIndex < Len(words))
        => currentImage \in {NoImage, WordAt(words, currentIndex)}

----------------------------------------------------------------------------
(* Properties of the codec, checked under SpecCodec *)

\* C10 (as claimed): decoding a byte sequence of even length and re-encoding
\* the result yields the original samples.
C10_RoundTripLossless ==
    codecPc = "encoded" => pcmInt16 = Int16View(pcmBytes)

\* C10 (amended): decoding and re-encoding yields the original sample when it
\* is zero or negative and the original sample minus one when it is positive.
C10_RoundTripOneBelow ==
    codecPc = "encoded"
    => /\ Len(pcmInt16) = Len(pcmBytes) \div 2
       /\ \A i \in DOMAIN pcmInt16 :
            pcmInt16[i] = IF Int16View(pcmBytes)[i] > 0
                          THEN Int16View(pcmBytes)[i] - 1
                          ELSE Int16View(pcmBytes)[i]

\* C10 witness: the samples 32767 and -32768 were decoded and re-encoded.
C10_Witness ==
    /\ codecPc = "encoded"
    /\ Int16View(pcmBytes) = <<32767, -32768>>
    /\ pcmInt16 = <<32766, -32768>>

\* The float f lies in [-1.0, 1.0]
InRange(f) == -f.den <= f.num /\ f.num <= f.den

\* The rational f with the denominator 1 when it is an integer
Reduced(f) ==
    IF f.num % f.den = 0 THEN [num |-> f.num \div f.den, den |-> 1] ELSE f

\* |f - n / 32768|, in units of 1 / (32768 * den) of the reduced f
ErrorTimes(f, n) ==
    LET r == Reduced(f)
        d == r.num * DecodeScale - n * r.den
    IN  IF d < 0 THEN -d ELSE d

\* One quantisation step 1 / 32768, in the units of ErrorTimes(f, n)
StepTimes(f) == Reduced(f).den

\* C11 (as claimed): a sample in [-1, 1] that was encoded and decoded again
\* is reproduced within 1/32768, except at the extremes 1.0 and -1.0.
C11_WithinOneStep ==
    codecPc = "replayed"
    => \A i \in DOMAIN pcmFloat :
         InRange(pcmFloat[i])
         => \/ ErrorTimes(pcmFloat[i], pcmInt16[i]) <= StepTimes(pcmFloat[i])
            \/ pcmFloat[i].num = pcmFloat[i].den
            \/ pcmFloat[i].num = -pcmFloat[i].den

\* C11 (amended): a sample in [-1, 1] that was encoded and decoded again is
\* reproduced with an error below 1/32768 when it is negative or zero and
\* below 2/32768 when it is positive, and the decoded value is the encoder's
\* integer over 32768.
C11_WithinTwoSteps ==
    codecPc = "replayed"
    => \A i \in DOMAIN pcmFloat :
         /\ pcmBack[i].num = pcmInt16[i] /\ pcmBack[i].den = DecodeScale
         /\ InRange(pcmFloat[i])
            => /\ ErrorTimes(pcmFloat[i], pcmBack[i].num)
                    < 2 * StepTimes(pcmFloat[i])
               /\ pcmFloat[i].num <= 0
                    => ErrorTimes(pcmFloat[i], pcmBack[i].num)
                         < StepTimes(pcmFloat[i])

\* C11 witness: the sample 49153/65536 (about 0.75) came back as 24575/32768,
\* one and a half steps below.
C11_Witness ==
    /\ codecPc = "replayed"
    /\ pcmFloat = << [num |-> 49153, den |-> FineDen] >>
    /\ pcmBack = << [num |-> 24575, den |-> DecodeScale] >>

\* C12: every encoded sample is in -32768..32767, an input above 1.0 gives
\* 32767 and an input below -1.0 gives -32768 (saturation, no wrap-around).
C12_Saturates ==
    codecPc \in {"encoded", "replayed"}
    => \A i \in DOMAIN pcmFloat :
         /\ pcmInt16[i] \in -32768..32767
         /\ pcmFloat[i].num > pcmFloat[i].den => pcmInt16[i] = 32767
         /\ pcmFloat[i].num < -pcmFloat[i].den => pcmInt16[i] = -32768
         /\ InRange(pcmFloat[i])
            => (pcmInt16[i] < 0 <=> pcmFloat[i].num < 0)
                 \/ pcmInt16[i] = 0

\* C12 witness: the inputs 2.0 and -2.0 were encoded as 32767 and -32768.
C12_Witness ==
    /\ codecPc = "encoded"
    /\ pcmFloat = << [num |-> 2, den |-> 1], [num |-> -2, den |-> 1] >>
    /\ pcmInt16 = << 32767, -32768 >>

\* The four samples of the example: 0.5, -0.5, 1.0, -1.0
ExampleFloats ==
    << [num |-> 1, den |-> 2], [num |-> -1, den |-> 2],
       [num |-> 1, den |-> 1], [num |-> -1, den |-> 1] >>

\* C13: the output has one sample per input sample in the same order; a
\* negative sample in range is s * 32768 truncated toward zero, a non-negative
\* one is s * 32767 truncated toward zero; the example 0.5, -0.5, 1.0, -1.0
\* encodes as 16383, -16384, 32767, -32768.
C13_ScaleAndTruncate ==
    codecPc \in {"encoded", "replayed"}
    => /\ Len(pcmInt16) = Len(pcmFloat)
       /\ \A i \in DOMAIN pcmFloat :
            LET f == Reduced(pcmFloat[i])
                n == pcmInt16[i]
            IN  InRange(f)
                => IF f.num < 0
                   THEN /\ n * f.den >= f.num * NegScale
                        /\ (n - 1) * f.den < f.num * NegScale
                   ELSE /\ n * f.den <= f.num * PosScale
                        /\ (n + 1) * f.den > f.num * PosScale
       /\ pcmFloat = ExampleFloats
            => pcmInt16 = << 16383, -16384, 32767, -32768 >>

\* C13 witness: the example has been encoded, and so has a negative sample
\* that is not a multiple of 1/32768.
C13_Witness ==
    /\ codecPc = "encoded"
    /\ \/ pcmFloat = ExampleFloats /\ Len(pcmInt16) = 4
       \/ pcmFloat = << [num |-> -3, den |-> FineDen] >> /\ pcmInt16 = << -1 >>

\* The playChunk calls that have not run their body yet
Pending == Range(awaiting) \cup Range(microtasks)

\* C14: a chunk whose byte length is odd is dropped and the session goes on:
\* its call fails with the RangeError, no source is ever created for it, and
\* the step in which it fails leaves the cursor, the active set, the sources,
\* the context state and the clock as they were, so that later chunks are
\* scheduled as if it had never arrived.
C14_MalformedDropped ==
    [][ /\ \A i \in DOMAIN sources' :
              /\ sources'[i].bytes % 2 = 0
              /\ sources'[i].frames * 2 * numChannels = sources'[i].bytes
        /\ \A j \in DOMAIN failed' :
              /\ failed'[j].malformed => failed'[j].error = "RangeError"
              /\ \A i \in DOMAIN sources' : sources'[i].call # failed'[j].call
        /\ \A id \in 1..calls' :
              \/ \E c \in Pending' : c.id = id
              \/ \E j \in DOMAIN failed' : failed'[j].call = id
              \/ \E i \in DOMAIN sources' : sources'[i].call = id
        /\ failed' # failed
              => UNCHANGED <<nextStartTime, queue, sources, ctxState,
                             currentTime>>
      ]_vars

\* C14 witness: a chunk was scheduled, the next call brought an odd number
\* of bytes and failed, and the chunk after it starts where the first one ends.
C14_Witness ==
    /\ Len(sources) = 2 /\ Len(failed) = 1
    /\ sources[1].call = 1 /\ failed[1].call = 2 /\ sources[2].call = 3
    /\ failed[1].malformed /\ failed[1].error = "RangeError"
    /\ sources[1].session = sources[2].session
    /\ sources[2].start = sources[1].start + Duration(sources[1].frames)
    /\ queue = <<1, 2>>

====
